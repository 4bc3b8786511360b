---------------------------- MODULE TurnsProofs ----------------------------
(***************************************************************************)
(* Proofs about the card table, for any number of seats, cards, segments   *)
(* and hint markers: its type, the inductive invariant behind the safety   *)
(* properties that TLC checks on small tables, and the refinement of the   *)
(* relay of cards.                                                         *)
(*                                                                         *)
(* Then about players, agents and timers at that table, for any set of     *)
(* agents.  Whatever they interleave, the table only takes the steps of    *)
(* module Table, so what is proved of it holds; nobody who is due is       *)
(* forgotten; a timeout hits the turn it belongs to; and an agent's card   *)
(* was chosen for the table it is played on.                               *)
(***************************************************************************)
EXTENDS Turns, FiniteSetTheorems, TLAPS

-----------------------------------------------------------------------------
(* Facts about seats and cards. *)

LEMMA TableCardsPositive == TableCards \in Nat \ {0}
  BY TableAssumption DEF TableCards, Seats

LEMMA NextSeatType == ASSUME NEW s \in Seats PROVE NextSeatAfter(s) \in Seats
  BY TableAssumption DEF NextSeatAfter, Seats

LEMMA NoHandsType == NoHands \in [Seats -> SUBSET Card]
  BY DEF NoHands

LEMMA DealtType ==
  /\ [s \in Seats |-> HandOf(s)] \in [Seats -> SUBSET Card]
  /\ DealtVisible \in SUBSET Card
  BY DEF HandOf, Card, DealtVisible

LEMMA OnTableType ==
  ASSUME NEW plays \in Seq(Play)
  PROVE  OnTable(plays) \in SUBSET Card
  <1>1. ASSUME NEW i \in DOMAIN plays PROVE plays[i].card \in Card
    <2>1. plays[i] \in Play
      OBVIOUS
    <2> QED
      BY <2>1 DEF Play
  <1> QED
    BY <1>1 DEF OnTable

LEMMA VisibleAfterType ==
  ASSUME visible \in SUBSET Card,
         NEW left \in [Seats -> SUBSET Card], NEW counts
  PROVE  VisibleAfter(left, counts) \in SUBSET Card
  BY DEF VisibleAfter

-----------------------------------------------------------------------------
(* Type correctness. *)

LEMMA ResetRoundType ==
  ASSUME TypeOK,
         NEW newHands \in [Seats -> SUBSET Card],
         NEW newVisible \in SUBSET Card,
         NEW newTurn \in Seats \cup {Race, Nobody},
         ResetRound(newHands, newVisible, newTurn),
         attempt' \in 0..MaxAttempts, phase' \in Phases
  PROVE  TypeOK'
  <1>1. playedCount' \in [Seats -> Nat] /\ played' \in Seq(Play)
    BY DEF ResetRound
  <1> QED
    BY <1>1 DEF TypeOK, ResetRound

LEMMA FailWithType ==
  ASSUME TypeOK, NEW reason \in {"timeout", "player-left"}, FailWith(reason)
  PROVE  TypeOK'
  BY DEF TypeOK, FailWith, roundVars, Phases

LEMMA PutDownType ==
  ASSUME TypeOK, NEW s \in Seats, NEW c \in Card, NEW g \in Segments,
         PutDown(s, c, g)
  PROVE  /\ hands' \in [Seats -> SUBSET Card]
         /\ played' \in Seq(Play)
         /\ playedCount' \in [Seats -> Nat]
  <1>1. [seat |-> s, card |-> c, segment |-> g] \in Play
    BY DEF Play
  <1> QED
    BY <1>1 DEF TypeOK, PutDown

LEMMA AfterRevealType ==
  ASSUME TypeOK, NEW now \in BOOLEAN, NEW total \in Nat,
         NEW before \in SUBSET Card, NEW after \in SUBSET Card,
         NEW ok \in BOOLEAN,
         AfterReveal(now, total, before, after, ok)
  PROVE  /\ phase' \in Phases
         /\ phaseVersion' \in Nat
         /\ faceUp' \in SUBSET Card
         /\ failureReason' \in {NoReason, "timeout", "player-left", "rule-unmet"}
  BY DEF TypeOK, AfterReveal, Phases

LEMMA ContinueAfterType ==
  ASSUME TypeOK, NEW s \in Seats, NEW total \in Nat, ContinueAfter(s, total)
  PROVE  turn' \in Seats \cup {Race, Nobody} /\ turnVersion' \in Nat
  BY NextSeatType DEF TypeOK, ContinueAfter

LEMMA PlaceWithHintType ==
  ASSUME TypeOK, NEW s \in Seats, NEW c \in Card, NEW g \in Segments,
         NEW now \in BOOLEAN, NEW ok \in BOOLEAN, PlaceWithHint(s, c, g, now, ok)
  PROVE  TypeOK'
  <1>1. /\ hands' \in [Seats -> SUBSET Card]
        /\ played' \in Seq(Play)
        /\ playedCount' \in [Seats -> Nat]
    BY PutDownType DEF PlaceWithHint
  <1>2. /\ phase' \in Phases
        /\ phaseVersion' \in Nat
        /\ faceUp' \in SUBSET Card
        /\ failureReason' \in {NoReason, "timeout", "player-left", "rule-unmet"}
    <2>1. AfterReveal(now, Len(played) + 1, faceUp, OnTable(played'), ok)
      BY DEF PlaceWithHint
    <2>2. OnTable(played') \in SUBSET Card
      BY <1>1, OnTableType
    <2> QED
      BY <2>1, <2>2, AfterRevealType DEF TypeOK
  <1>3. pendingHint' \in Hint /\ turn' = Nobody /\ turnVersion' \in Nat
    BY DEF PlaceWithHint, TypeOK, Hint
  <1> QED
    BY <1>1, <1>2, <1>3 DEF PlaceWithHint, TypeOK

LEMMA PlaceWithoutHintType ==
  ASSUME TypeOK, NEW s \in Seats, NEW c \in Card, NEW g \in Segments,
         NEW now \in BOOLEAN, NEW ok \in BOOLEAN, PlaceWithoutHint(s, c, g, now, ok)
  PROVE  TypeOK'
  <1>1. /\ hands' \in [Seats -> SUBSET Card]
        /\ played' \in Seq(Play)
        /\ playedCount' \in [Seats -> Nat]
    BY PutDownType DEF PlaceWithoutHint
  <1>2. /\ phase' \in Phases
        /\ phaseVersion' \in Nat
        /\ faceUp' \in SUBSET Card
        /\ failureReason' \in {NoReason, "timeout", "player-left", "rule-unmet"}
    <2>1. AfterReveal(now, Len(played) + 1, faceUp, OnTable(played'), ok)
      BY DEF PlaceWithoutHint
    <2>2. OnTable(played') \in SUBSET Card
      BY <1>1, OnTableType
    <2> QED
      BY <2>1, <2>2, AfterRevealType DEF TypeOK
  <1>3. turn' \in Seats \cup {Race, Nobody} /\ turnVersion' \in Nat
    <2>1. ContinueAfter(s, Len(played) + 1) /\ Len(played) + 1 \in Nat
      BY DEF PlaceWithoutHint, TypeOK
    <2> QED
      BY <2>1, ContinueAfterType
  <1>4. visible' \in SUBSET Card
    <2>1. visible' = VisibleAfter(hands', playedCount')
      BY DEF PlaceWithoutHint
    <2> QED
      BY <2>1, <1>1, VisibleAfterType DEF TypeOK
  <1> QED
    BY <1>1, <1>2, <1>3, <1>4 DEF PlaceWithoutHint, TypeOK

LEMMA HintDecisionType ==
  ASSUME TypeOK, NEW decision \in {"yes", "no"}, NEW ok \in BOOLEAN,
         HintDecision(decision, ok)
  PROVE  TypeOK'
  <1> DEFINE yes == decision = "yes" /\ hintUsed < HintTotal
             shown == IF yes THEN faceUp \cup {pendingHint.card} ELSE faceUp
  <1>1. pendingHint \in Hint
    BY DEF HintDecision, TypeOK
  <1>2. pendingHint.seat \in Seats /\ pendingHint.card \in Card
    BY <1>1 DEF Hint
  <1>3. /\ phase' \in Phases
        /\ phaseVersion' \in Nat
        /\ faceUp' \in SUBSET Card
        /\ failureReason' \in {NoReason, "timeout", "player-left", "rule-unmet"}
    <2>1. AfterReveal(TRUE, Len(played), shown, OnTable(played), ok)
      BY DEF HintDecision
    <2>2. shown \in SUBSET Card /\ OnTable(played) \in SUBSET Card
      BY <1>2, OnTableType DEF TypeOK
    <2>3. Len(played) \in Nat
      BY DEF TypeOK
    <2> HIDE DEF shown, yes
    <2> QED
      BY <2>1, <2>2, <2>3, AfterRevealType
  <1>4. turn' \in Seats \cup {Race, Nobody} /\ turnVersion' \in Nat
    <2>1. ContinueAfter(pendingHint.seat, Len(played)) /\ Len(played) \in Nat
      BY DEF HintDecision, TypeOK
    <2> QED
      BY <2>1, <1>2, ContinueAfterType
  <1>5. visible' \in SUBSET Card
    <2>1. visible' = VisibleAfter(hands, playedCount)
      BY DEF HintDecision
    <2> QED
      BY <2>1, VisibleAfterType DEF TypeOK
  <1>6. hintUsed' \in Nat
    BY DEF HintDecision, TypeOK
  <1>7. /\ pendingHint' = NoHint
        /\ UNCHANGED <<attempt, hands, playedCount, played>>
    BY DEF HintDecision
  <1> QED
    BY <1>3, <1>4, <1>5, <1>6, <1>7 DEF TypeOK

LEMMA LateRevealType ==
  ASSUME TypeOK, NEW ok \in BOOLEAN, LateReveal(ok)
  PROVE  TypeOK'
  <1>1. AfterReveal(TRUE, Len(played), faceUp, OnTable(played), ok)
    BY DEF LateReveal
  <1>2. OnTable(played) \in SUBSET Card /\ Len(played) \in Nat
    BY OnTableType DEF TypeOK
  <1>3. /\ phase' \in Phases
        /\ phaseVersion' \in Nat
        /\ faceUp' \in SUBSET Card
        /\ failureReason' \in {NoReason, "timeout", "player-left", "rule-unmet"}
    BY <1>1, <1>2, AfterRevealType DEF TypeOK
  <1> QED
    BY <1>3 DEF LateReveal, TypeOK

\* Every variable keeps its type, whatever is dealt, played or decided
\* (the state of server/src/game/room.ts under the actions of game/).
THEOREM TypeCorrect == Spec => []TypeOK
  <1>1. Init => TypeOK
    BY TableAssumption DEF Init, TypeOK, Phases
  <1>2. TypeOK /\ [Next]_tableVars => TypeOK'
    <2> SUFFICES ASSUME TypeOK, [Next]_tableVars PROVE TypeOK'
      OBVIOUS
    <2>1. CASE EnterDiscussion
      <3>1. attempt' \in 0..MaxAttempts /\ phase' \in Phases
        BY <2>1, TableAssumption DEF EnterDiscussion, TypeOK, Phases
      <3> QED
        BY <2>1, <3>1, NoHandsType, ResetRoundType DEF EnterDiscussion
    <2>2. CASE BeginPlacement
      <3>1. attempt' \in 0..MaxAttempts /\ phase' \in Phases
        BY <2>2 DEF BeginPlacement, TypeOK, Phases
      <3> QED
        BY <2>2, <3>1, DealtType, ResetRoundType DEF BeginPlacement
    <2>3. CASE BackToLobby
      <3>1. attempt' \in 0..MaxAttempts /\ phase' \in Phases
        BY <2>3 DEF BackToLobby, TypeOK, Phases
      <3> QED
        BY <2>3, <3>1, NoHandsType, ResetRoundType DEF BackToLobby
    <2>4. CASE EnterResultAfterReveal
      BY <2>4 DEF EnterResultAfterReveal, TypeOK, roundVars, Phases
    <2>5. CASE FailByTimeout
      BY <2>5, FailWithType DEF FailByTimeout
    <2>6. CASE FailByPlayerLeft
      BY <2>6, FailWithType DEF FailByPlayerLeft
    <2>7. ASSUME NEW s \in Seats, NEW c \in Card, NEW g \in Segments,
                 NEW now \in BOOLEAN, NEW ok \in BOOLEAN,
                 PlaceWithHint(s, c, g, now, ok) \/ PlaceWithoutHint(s, c, g, now, ok)
          PROVE  TypeOK'
      BY <2>7, PlaceWithHintType, PlaceWithoutHintType
    <2>8. ASSUME NEW decision \in {"yes", "no"}, NEW ok \in BOOLEAN,
                 HintDecision(decision, ok)
          PROVE  TypeOK'
      BY <2>8, HintDecisionType
    <2>9. ASSUME NEW ok \in BOOLEAN, LateReveal(ok) PROVE TypeOK'
      BY <2>9, LateRevealType
    <2>10. CASE UNCHANGED tableVars
      BY <2>10 DEF tableVars, roundVars, TypeOK
    <2> QED
      BY <2>1, <2>2, <2>3, <2>4, <2>5, <2>6, <2>7, <2>8, <2>9, <2>10 DEF Next
  <1> QED
    BY <1>1, <1>2, PTL DEF Spec

-----------------------------------------------------------------------------
(* The table grows by one card at its end. *)

LEMMA PutDownFacts ==
  ASSUME TypeOK, NEW s \in Seats, NEW c \in Card, NEW g \in Segments,
         PutDown(s, c, g)
  PROVE  /\ Len(played') = Len(played) + 1
         /\ DOMAIN played = 1..Len(played)
         /\ DOMAIN played' = 1..(Len(played) + 1)
         /\ \A i \in 1..Len(played) : played'[i] = played[i]
         /\ played'[Len(played) + 1].seat = s
         /\ played'[Len(played) + 1].card = c
         /\ OnTable(played') = OnTable(played) \cup {c}
  <1> DEFINE p == [seat |-> s, card |-> c, segment |-> g]
  <1>1. p \in Play /\ played \in Seq(Play) /\ played' = Append(played, p)
    BY DEF Play, TypeOK, PutDown
  <1>2. /\ Len(played') = Len(played) + 1
        /\ DOMAIN played = 1..Len(played)
        /\ DOMAIN played' = 1..(Len(played) + 1)
        /\ \A i \in 1..Len(played) : played'[i] = played[i]
        /\ played'[Len(played) + 1] = p
        /\ Len(played) \in Nat
    BY <1>1
  <1>3. OnTable(played') = OnTable(played) \cup {c}
    <2>1. ASSUME NEW x \in OnTable(played') PROVE x \in OnTable(played) \cup {c}
      <3>1. PICK i \in 1..(Len(played) + 1) : x = played'[i].card
        BY <1>2 DEF OnTable
      <3>2. CASE i = Len(played) + 1
        BY <3>1, <3>2, <1>2
      <3>3. CASE i # Len(played) + 1
        <4>1. i \in 1..Len(played)
          BY <3>3, <1>2
        <4> QED
          BY <4>1, <3>1, <1>2 DEF OnTable
      <3> QED
        BY <3>2, <3>3
    <2>2. ASSUME NEW x \in OnTable(played) PROVE x \in OnTable(played')
      <3>1. PICK i \in 1..Len(played) : x = played[i].card
        BY <1>2 DEF OnTable
      <3>2. i \in DOMAIN played' /\ x = played'[i].card
        BY <3>1, <1>2
      <3> QED
        BY <3>2 DEF OnTable
    <2>3. c \in OnTable(played')
      <3>1. Len(played) + 1 \in DOMAIN played' /\ played'[Len(played) + 1].card = c
        BY <1>2
      <3> QED
        BY <3>1 DEF OnTable
    <2> QED
      BY <2>1, <2>2, <2>3
  <1> QED
    BY <1>2, <1>3

LEMMA AfterRevealFacts ==
  ASSUME phase = "placing", NEW now \in BOOLEAN, NEW total \in Nat,
         NEW before, NEW after, NEW ok \in BOOLEAN,
         AfterReveal(now, total, before, after, ok)
  PROVE  \/ phase' = "placing" /\ faceUp' = before /\ ~(now /\ total >= TableCards)
         \/ /\ phase' = "reveal" /\ faceUp' = after /\ total >= TableCards
            /\ failureReason' \in {NoReason, "rule-unmet"}
  BY TableCardsPositive DEF AfterReveal

\* Who may play holds the card, the card is not on the table yet, there is
\* room for it, and after the first card it is this seat's turn.
LEMMA MayPlaceFacts ==
  ASSUME TypeOK, TableInv, NEW s \in Seats, NEW c \in Card, MayPlace(s, c)
  PROVE  /\ phase = "placing" /\ pendingHint = NoHint
         /\ c \in HandOf(s) /\ c \notin OnTable(played)
         /\ Len(played) \in Nat /\ Len(played) < TableCards
         /\ played # <<>> => s = NextSeatAfter(played[Len(played)].seat)
  <1>1. phase = "placing" /\ pendingHint = NoHint /\ turn \in {Race, s} /\ c \in hands[s]
    BY DEF MayPlace
  <1>2. c \in HandOf(s) /\ c \notin OnTable(played)
    BY <1>1 DEF TableInv, CardsConserved
  <1>3. turn # Nobody /\ (turn # Race => turn = s /\ turn \in Seats)
    BY <1>1, TableAssumption
  <1>4. Len(played) \in Nat /\ Len(played) <= TableCards /\ Len(played) # TableCards
    BY <1>1, <1>3 DEF TableInv, NeverOverfull, SomebodyIsDue, TypeOK
  <1>5. played # <<>> => s = NextSeatAfter(played[Len(played)].seat)
    BY <1>1, <1>3 DEF TableInv, GoesRound
  <1> QED
    BY <1>1, <1>2, <1>4, <1>5, TableCardsPositive

LEMMA PutDownConserves ==
  ASSUME TypeOK, TableInv, NEW s \in Seats, NEW c \in Card, NEW g \in Segments,
         MayPlace(s, c), PutDown(s, c, g)
  PROVE  CardsConserved'
  <1>1. /\ phase = "placing"
        /\ c \in HandOf(s) /\ c \notin OnTable(played)
    BY MayPlaceFacts
  <1>2. /\ \A i, j \in DOMAIN played : i # j => played[i].card # played[j].card
        /\ \A t \in Seats : hands[t] = HandOf(t) \ OnTable(played)
    BY <1>1 DEF TableInv, CardsConserved
  <1>3. /\ DOMAIN played = 1..Len(played)
        /\ DOMAIN played' = 1..(Len(played) + 1)
        /\ \A i \in 1..Len(played) : played'[i] = played[i]
        /\ played'[Len(played) + 1].card = c
        /\ OnTable(played') = OnTable(played) \cup {c}
        /\ Len(played) \in Nat
    BY PutDownFacts DEF TypeOK
  <1>4. \A i \in 1..Len(played) : played[i].card # c
    BY <1>1, <1>3 DEF OnTable
  <1>5. ASSUME NEW i \in DOMAIN played', NEW j \in DOMAIN played', i # j
        PROVE  played'[i].card # played'[j].card
    BY <1>2, <1>3, <1>4, <1>5
  <1>6. ASSUME NEW t \in Seats
        PROVE  hands'[t] = HandOf(t) \ OnTable(played')
    <2>1. hands' = [hands EXCEPT ![s] = @ \ {c}] /\ DOMAIN hands = Seats
      BY DEF PutDown, TypeOK
    <2>2. CASE t = s
      BY <2>1, <2>2, <1>2, <1>3
    <2>3. CASE t # s
      <3>1. c \notin HandOf(t)
        BY <2>3, <1>1 DEF HandOf
      <3> QED
        BY <2>1, <2>3, <3>1, <1>2, <1>3
    <2> QED
      BY <2>2, <2>3
  <1> QED
    BY <1>5, <1>6 DEF CardsConserved

LEMMA PutDownGoesRound ==
  ASSUME TypeOK, TableInv, NEW s \in Seats, NEW c \in Card, NEW g \in Segments,
         MayPlace(s, c), PutDown(s, c, g)
  PROVE  /\ \A i \in 1..(Len(played') - 1) :
              played'[i + 1].seat = NextSeatAfter(played'[i].seat)
         /\ played' # <<>>
         /\ Len(played') = Len(played) + 1
         /\ played'[Len(played')].seat = s
         /\ played'[Len(played')].card = c
         /\ Len(played') <= TableCards
  <1>1. /\ phase = "placing"
        /\ Len(played) \in Nat /\ Len(played) < TableCards
        /\ played # <<>> => s = NextSeatAfter(played[Len(played)].seat)
    BY MayPlaceFacts
  <1>2. /\ Len(played') = Len(played) + 1
        /\ \A i \in 1..Len(played) : played'[i] = played[i]
        /\ played'[Len(played) + 1].seat = s
        /\ played'[Len(played) + 1].card = c
    BY PutDownFacts
  <1>3. \A i \in 1..(Len(played) - 1) :
          played[i + 1].seat = NextSeatAfter(played[i].seat)
    BY <1>1 DEF TableInv, GoesRound
  <1>4. ASSUME NEW i \in 1..(Len(played') - 1)
        PROVE  played'[i + 1].seat = NextSeatAfter(played'[i].seat)
    <2>1. CASE i = Len(played)
      <3>1. played # <<>> /\ i \in 1..Len(played)
        BY <2>1, <1>1, <1>2
      <3> QED
        BY <2>1, <3>1, <1>1, <1>2
    <2>2. CASE i # Len(played)
      <3>1. i \in 1..(Len(played) - 1) /\ i + 1 \in 1..Len(played) /\ i \in 1..Len(played)
        BY <2>2, <1>1, <1>2
      <3> QED
        BY <3>1, <1>2, <1>3
    <2> QED
      BY <2>1, <2>2
  <1>5. played' # <<>>
    BY <1>1, <1>2
  <1>6. Len(played') <= TableCards
    BY <1>1, <1>2, TableCardsPositive
  <1> QED
    BY <1>2, <1>4, <1>5, <1>6

-----------------------------------------------------------------------------
(* Every step of the table preserves TableInv.  MarkersPayForFaceUp counts  *)
(* a set, which takes the finiteness of faceUp with it.                     *)

FaceUpFinite == IsFiniteSet(faceUp)

LEMMA OnTableFinite ==
  ASSUME NEW plays \in Seq(Play)
  PROVE  IsFiniteSet(OnTable(plays))
  <1> DEFINE f == [i \in DOMAIN plays |-> plays[i].card]
  <1>1. DOMAIN plays = 1..Len(plays) /\ Len(plays) \in Nat
    OBVIOUS
  <1>2. IsFiniteSet(DOMAIN plays)
    BY <1>1, FS_Interval
  <1>3. f \in Surjection(DOMAIN plays, OnTable(plays))
    BY DEF Surjection, OnTable
  <1> QED
    BY <1>2, <1>3, FS_Surjection

\* The phases outside play satisfy the invariant by its shape.
LEMMA IdlePhaseInv ==
  ASSUME phase' \in {"lobby", "discussion", "result"}
  PROVE  TableInv'
  BY DEF TableInv, CardsConserved, GoesRound, SomebodyIsDue, MarkersPayForFaceUp,
         BlindUntilSettled, WindowOnLastCard, NeverOverfull, RevealIsScored

LEMMA DealInv ==
  ASSUME TypeOK, BeginPlacement
  PROVE  TableInv' /\ FaceUpFinite'
  <1>1. /\ hands' = [s \in Seats |-> HandOf(s)] /\ visible' = DealtVisible
        /\ playedCount' = [s \in Seats |-> 0] /\ played' = <<>> /\ faceUp' = {}
        /\ hintUsed' = 0 /\ turn' = Race /\ pendingHint' = NoHint
        /\ phase' = "placing"
    BY DEF BeginPlacement, ResetRound
  <1>2. OnTable(played') = {}
    BY <1>1 DEF OnTable
  <1>3. CardsConserved'
    BY <1>1, <1>2 DEF CardsConserved
  <1>4. GoesRound' /\ SomebodyIsDue' /\ NeverOverfull' /\ WindowOnLastCard' /\ RevealIsScored'
    BY <1>1, TableAssumption, TableCardsPositive
       DEF GoesRound, SomebodyIsDue, NeverOverfull, WindowOnLastCard, RevealIsScored
  <1>5. MarkersPayForFaceUp' /\ FaceUpFinite'
    BY <1>1, FS_EmptySet, TableAssumption DEF MarkersPayForFaceUp, FaceUpFinite
  <1>6. BlindUntilSettled'
    <2>1. \A s \in Seats : \A c \in hands'[s] : Blind(c) => c \notin visible'
      BY <1>1 DEF DealtVisible
    <2>2. ~ \A t \in Seats : playedCount'[t] >= RevealRemainingAfter
      BY <1>1, TableAssumption DEF RevealRemainingAfter, Seats
    <2> QED
      BY <2>1, <2>2 DEF BlindUntilSettled
  <1> QED
    BY <1>3, <1>4, <1>5, <1>6 DEF TableInv

LEMMA PlaceWithHintInv ==
  ASSUME TypeOK, TableInv, FaceUpFinite,
         NEW s \in Seats, NEW c \in Card, NEW g \in Segments,
         NEW now \in BOOLEAN, NEW ok \in BOOLEAN, PlaceWithHint(s, c, g, now, ok)
  PROVE  TableInv' /\ FaceUpFinite'
  <1>1. /\ MayPlace(s, c) /\ PutDown(s, c, g) /\ hintUsed < HintTotal
        /\ pendingHint' = [seat |-> s, card |-> c] /\ turn' = Nobody
        /\ AfterReveal(now, Len(played) + 1, faceUp, OnTable(played'), ok)
        /\ visible' = visible /\ hintUsed' = hintUsed
    BY DEF PlaceWithHint
  <1>2. /\ phase = "placing" /\ pendingHint = NoHint
        /\ Len(played) \in Nat /\ c \notin OnTable(played)
    BY <1>1, MayPlaceFacts
  <1>3. /\ \A i \in 1..(Len(played') - 1) :
             played'[i + 1].seat = NextSeatAfter(played'[i].seat)
        /\ played' # <<>>
        /\ Len(played') = Len(played) + 1
        /\ played'[Len(played')].seat = s
        /\ played'[Len(played')].card = c
        /\ Len(played') <= TableCards
    BY <1>1, PutDownGoesRound
  <1>4. \/ phase' = "placing" /\ faceUp' = faceUp
        \/ /\ phase' = "reveal" /\ faceUp' = OnTable(played')
           /\ Len(played') >= TableCards
           /\ failureReason' \in {NoReason, "rule-unmet"}
    BY <1>1, <1>2, <1>3, AfterRevealFacts
  <1>5. pendingHint' # NoHint /\ pendingHint'.seat = s /\ pendingHint'.card = c
    BY <1>1, NoHintAssumption DEF Hint
  <1>6. OnTable(played') = OnTable(played) \cup {c} /\ played' \in Seq(Play)
    BY <1>1, PutDownFacts, PutDownType
  <1>7. CardsConserved'
    BY <1>1, PutDownConserves
  <1>8. GoesRound' /\ SomebodyIsDue' /\ NeverOverfull' /\ RevealIsScored'
    BY <1>1, <1>3, <1>4, <1>5, TableAssumption, TableCardsPositive
       DEF GoesRound, SomebodyIsDue, NeverOverfull, RevealIsScored
  <1>9. /\ Cardinality(faceUp) = hintUsed /\ hintUsed <= HintTotal
        /\ faceUp \subseteq OnTable(played)
    BY <1>2 DEF TableInv, MarkersPayForFaceUp
  <1>10. WindowOnLastCard'
    BY <1>2, <1>3, <1>4, <1>5, <1>9 DEF WindowOnLastCard
  <1>11. MarkersPayForFaceUp'
    BY <1>1, <1>4, <1>6, <1>9 DEF MarkersPayForFaceUp
  <1>12. FaceUpFinite'
    BY <1>4, <1>6, OnTableFinite DEF FaceUpFinite
  <1>13. BlindUntilSettled'
    <2>1. SUFFICES ASSUME phase' = "placing", BlindRule,
                          NEW t \in Seats, NEW d \in hands'[t], Blind(d),
                          ~ \A u \in Seats : playedCount'[u] >= RevealRemainingAfter
                   PROVE  d \notin visible'
      BY <1>5 DEF BlindUntilSettled
    <2>2. /\ \A u \in Seats : playedCount'[u] >= playedCount[u]
          /\ hands'[t] \subseteq hands[t]
          /\ \A u \in Seats : playedCount[u] \in Nat /\ playedCount'[u] \in Nat
      BY <1>1 DEF PutDown, TypeOK
    <2>3. ~ \A u \in Seats : playedCount[u] >= RevealRemainingAfter
      BY <2>1, <2>2 DEF RevealRemainingAfter
    <2>4. d \notin visible
      BY <2>1, <2>2, <2>3, <1>2 DEF TableInv, BlindUntilSettled
    <2> QED
      BY <2>4, <1>1
  <1> QED
    BY <1>7, <1>8, <1>10, <1>11, <1>12, <1>13 DEF TableInv

LEMMA PlaceWithoutHintInv ==
  ASSUME TypeOK, TableInv, FaceUpFinite,
         NEW s \in Seats, NEW c \in Card, NEW g \in Segments,
         NEW now \in BOOLEAN, NEW ok \in BOOLEAN, PlaceWithoutHint(s, c, g, now, ok)
  PROVE  TableInv' /\ FaceUpFinite'
  <1>1. /\ MayPlace(s, c) /\ PutDown(s, c, g)
        /\ visible' = VisibleAfter(hands', playedCount')
        /\ ContinueAfter(s, Len(played) + 1)
        /\ AfterReveal(now, Len(played) + 1, faceUp, OnTable(played'), ok)
        /\ hintUsed' = hintUsed /\ pendingHint' = pendingHint
    BY DEF PlaceWithoutHint
  <1>2. phase = "placing" /\ pendingHint = NoHint /\ Len(played) \in Nat
    BY <1>1, MayPlaceFacts
  <1>3. /\ \A i \in 1..(Len(played') - 1) :
             played'[i + 1].seat = NextSeatAfter(played'[i].seat)
        /\ played' # <<>>
        /\ Len(played') = Len(played) + 1
        /\ played'[Len(played')].seat = s
        /\ Len(played') <= TableCards
    BY <1>1, PutDownGoesRound
  <1>4. \/ phase' = "placing" /\ faceUp' = faceUp
        \/ /\ phase' = "reveal" /\ faceUp' = OnTable(played')
           /\ Len(played') >= TableCards
           /\ failureReason' \in {NoReason, "rule-unmet"}
    BY <1>1, <1>2, <1>3, AfterRevealFacts
  <1>5. /\ OnTable(played') = OnTable(played) \cup {c} /\ played' \in Seq(Play)
        /\ hands' \in [Seats -> SUBSET Card]
    BY <1>1, PutDownFacts, PutDownType
  <1>6. CardsConserved'
    BY <1>1, PutDownConserves
  <1>7. /\ turn' = IF Len(played') >= TableCards THEN Nobody ELSE NextSeatAfter(s)
        /\ NextSeatAfter(s) \in Seats
    BY <1>1, <1>3, NextSeatType DEF ContinueAfter
  <1>8. GoesRound' /\ SomebodyIsDue' /\ NeverOverfull' /\ RevealIsScored' /\ WindowOnLastCard'
    BY <1>1, <1>2, <1>3, <1>4, <1>7, TableAssumption, TableCardsPositive
       DEF GoesRound, SomebodyIsDue, NeverOverfull, RevealIsScored, WindowOnLastCard
  <1>9. /\ Cardinality(faceUp) = hintUsed /\ hintUsed <= HintTotal
        /\ faceUp \subseteq OnTable(played)
    BY <1>2 DEF TableInv, MarkersPayForFaceUp
  <1>10. MarkersPayForFaceUp'
    BY <1>1, <1>4, <1>5, <1>9 DEF MarkersPayForFaceUp
  <1>11. FaceUpFinite'
    BY <1>4, <1>5, OnTableFinite DEF FaceUpFinite
  <1>12. BlindUntilSettled'
    <2>1. SUFFICES ASSUME phase' = "placing", BlindRule,
                          NEW t \in Seats, NEW d \in hands'[t], Blind(d)
                   PROVE  IF \A u \in Seats : playedCount'[u] >= RevealRemainingAfter
                          THEN d \in visible' ELSE d \notin visible'
      BY DEF BlindUntilSettled
    <2>2. CASE \A u \in Seats : playedCount'[u] >= RevealRemainingAfter
      <3>1. visible' = visible \cup UNION {hands'[u] : u \in Seats}
        BY <1>1, <2>1, <2>2 DEF VisibleAfter
      <3> QED
        BY <2>1, <2>2, <3>1
    <2>3. CASE ~ \A u \in Seats : playedCount'[u] >= RevealRemainingAfter
      <3>1. visible' = visible
        BY <1>1, <2>3 DEF VisibleAfter
      <3>2. /\ \A u \in Seats : playedCount'[u] >= playedCount[u]
            /\ hands'[t] \subseteq hands[t]
            /\ \A u \in Seats : playedCount[u] \in Nat /\ playedCount'[u] \in Nat
        BY <1>1 DEF PutDown, TypeOK
      <3>3. ~ \A u \in Seats : playedCount[u] >= RevealRemainingAfter
        BY <2>3, <3>2 DEF RevealRemainingAfter
      <3>4. d \notin visible
        BY <2>1, <3>2, <3>3, <1>2 DEF TableInv, BlindUntilSettled
      <3> QED
        BY <2>3, <3>1, <3>4
    <2> QED
      BY <2>2, <2>3
  <1> QED
    BY <1>6, <1>8, <1>10, <1>11, <1>12 DEF TableInv

LEMMA HintDecisionInv ==
  ASSUME TypeOK, TableInv, FaceUpFinite,
         NEW decision \in {"yes", "no"}, NEW ok \in BOOLEAN,
         HintDecision(decision, ok)
  PROVE  TableInv' /\ FaceUpFinite'
  <1> DEFINE yes == decision = "yes" /\ hintUsed < HintTotal
             shown == IF yes THEN faceUp \cup {pendingHint.card} ELSE faceUp
  <1>1. /\ phase = "placing" /\ pendingHint # NoHint
        /\ hintUsed' = IF yes THEN hintUsed + 1 ELSE hintUsed
        /\ pendingHint' = NoHint
        /\ visible' = VisibleAfter(hands, playedCount)
        /\ ContinueAfter(pendingHint.seat, Len(played))
        /\ AfterReveal(TRUE, Len(played), shown, OnTable(played), ok)
        /\ hands' = hands /\ playedCount' = playedCount /\ played' = played
    BY DEF HintDecision
  <1>2. /\ played # <<>> /\ Len(played) \in Nat /\ Len(played) <= TableCards
        /\ pendingHint.seat = played[Len(played)].seat
        /\ pendingHint.card = played[Len(played)].card
        /\ pendingHint.card \notin faceUp
        /\ \A i \in 1..(Len(played) - 1) :
             played[i + 1].seat = NextSeatAfter(played[i].seat)
    BY <1>1 DEF TableInv, WindowOnLastCard, NeverOverfull, GoesRound, TypeOK
  <1>3. pendingHint.seat \in Seats /\ NextSeatAfter(pendingHint.seat) \in Seats
    <2>1. pendingHint \in Hint
      BY <1>1 DEF TypeOK
    <2>2. pendingHint.seat \in Seats
      BY <2>1 DEF Hint
    <2> QED
      BY <2>2, NextSeatType
  <1>4. pendingHint.card \in OnTable(played)
    <2>1. Len(played) \in DOMAIN played
      BY <1>2 DEF TypeOK
    <2> QED
      BY <2>1, <1>2 DEF OnTable
  <1>5. /\ Cardinality(faceUp) = hintUsed /\ hintUsed <= HintTotal /\ hintUsed \in Nat
        /\ faceUp \subseteq OnTable(played)
    BY <1>1 DEF TableInv, MarkersPayForFaceUp, TypeOK
  <1>6. /\ IsFiniteSet(shown) /\ Cardinality(shown) = hintUsed' /\ hintUsed' <= HintTotal
        /\ shown \subseteq OnTable(played)
    <2>1. CASE yes
      <3>1. shown = faceUp \cup {pendingHint.card}
        BY <2>1
      <3>2. IsFiniteSet(faceUp)
        BY DEF FaceUpFinite
      <3>3. IsFiniteSet(shown) /\ Cardinality(shown) = Cardinality(faceUp) + 1
        BY <3>1, <3>2, <1>2, FS_AddElement
      <3>4. hintUsed' = hintUsed + 1 /\ hintUsed < HintTotal
        BY <2>1, <1>1
      <3>5. shown \subseteq OnTable(played)
        BY <3>1, <1>4, <1>5
      <3> HIDE DEF shown, yes
      <3> QED
        BY <3>3, <3>4, <3>5, <1>5, TableAssumption
    <2>2. CASE ~yes
      BY <2>2, <1>1, <1>5 DEF FaceUpFinite
    <2> QED
      BY <2>1, <2>2
  <1> HIDE DEF shown, yes
  <1>7. \/ phase' = "placing" /\ faceUp' = shown /\ ~(Len(played) >= TableCards)
        \/ /\ phase' = "reveal" /\ faceUp' = OnTable(played)
           /\ Len(played) >= TableCards
           /\ failureReason' \in {NoReason, "rule-unmet"}
    BY <1>1, <1>2, AfterRevealFacts
  <1>8. OnTable(played') = OnTable(played)
    BY <1>1
  <1>9. CardsConserved'
    BY <1>1, <1>8 DEF TableInv, CardsConserved
  <1>10. turn' = IF Len(played) >= TableCards THEN Nobody ELSE NextSeatAfter(pendingHint.seat)
    BY <1>1 DEF ContinueAfter
  <1>11. GoesRound' /\ SomebodyIsDue' /\ NeverOverfull' /\ RevealIsScored' /\ WindowOnLastCard'
    BY <1>1, <1>2, <1>3, <1>7, <1>8, <1>10, TableAssumption, TableCardsPositive
       DEF GoesRound, SomebodyIsDue, NeverOverfull, RevealIsScored, WindowOnLastCard
  <1>12. MarkersPayForFaceUp'
    BY <1>6, <1>7, <1>8 DEF MarkersPayForFaceUp
  <1>13. FaceUpFinite'
    BY <1>6, <1>7, OnTableFinite DEF FaceUpFinite, TypeOK
  <1>14. BlindUntilSettled'
    <2>1. SUFFICES ASSUME phase' = "placing", BlindRule,
                          NEW t \in Seats, NEW d \in hands'[t], Blind(d)
                   PROVE  IF \A u \in Seats : playedCount'[u] >= RevealRemainingAfter
                          THEN d \in visible' ELSE d \notin visible'
      BY DEF BlindUntilSettled
    <2>2. CASE \A u \in Seats : playedCount[u] >= RevealRemainingAfter
      BY <2>1, <2>2, <1>1 DEF VisibleAfter
    <2>3. CASE ~ \A u \in Seats : playedCount[u] >= RevealRemainingAfter
      <3>1. visible' = visible
        BY <1>1, <2>3 DEF VisibleAfter
      <3> QED
        BY <2>1, <2>3, <3>1, <1>1 DEF TableInv, BlindUntilSettled
    <2> QED
      BY <2>2, <2>3
  <1> QED
    BY <1>9, <1>11, <1>12, <1>13, <1>14 DEF TableInv

LEMMA LateRevealInv ==
  ASSUME TypeOK, TableInv, FaceUpFinite, NEW ok \in BOOLEAN, LateReveal(ok)
  PROVE  TableInv' /\ FaceUpFinite'
  <1>0. Len(played) \in Nat
    BY DEF TypeOK
  <1>1. /\ phase = "placing" /\ Len(played) >= TableCards
        /\ AfterReveal(TRUE, Len(played), faceUp, OnTable(played), ok)
        /\ hands' = hands /\ played' = played
    BY DEF LateReveal
  <1>2. /\ phase' = "reveal" /\ faceUp' = OnTable(played)
        /\ failureReason' \in {NoReason, "rule-unmet"}
    BY <1>0, <1>1, AfterRevealFacts
  <1>3. CardsConserved' /\ NeverOverfull'
    BY <1>1, <1>2 DEF TableInv, CardsConserved, NeverOverfull
  <1>4. Len(played) = TableCards
    BY <1>0, <1>1, TableCardsPositive DEF TableInv, NeverOverfull
  <1>5. /\ SomebodyIsDue' /\ GoesRound' /\ MarkersPayForFaceUp' /\ BlindUntilSettled'
        /\ WindowOnLastCard' /\ RevealIsScored'
    BY <1>1, <1>2, <1>4 DEF SomebodyIsDue, GoesRound, MarkersPayForFaceUp, BlindUntilSettled,
       WindowOnLastCard, RevealIsScored
  <1>6. FaceUpFinite'
    BY <1>2, OnTableFinite DEF FaceUpFinite, TypeOK
  <1> QED
    BY <1>3, <1>5, <1>6 DEF TableInv

\* What every step of the table preserves, for any number of seats, cards,
\* segments and markers: conservation of the dealt cards, the circle of
\* turns, the price of cards face up, and when blind cards are shown.
THEOREM TableSafe == Spec => []TableInv
  <1>1. Init => TableInv /\ FaceUpFinite
    BY FS_EmptySet DEF Init, FaceUpFinite, TableInv, CardsConserved, GoesRound, SomebodyIsDue,
       MarkersPayForFaceUp, BlindUntilSettled, WindowOnLastCard, NeverOverfull, RevealIsScored
  <1>2. TypeOK /\ TableInv /\ FaceUpFinite /\ [Next]_tableVars => TableInv' /\ FaceUpFinite'
    <2> SUFFICES ASSUME TypeOK, TableInv, FaceUpFinite, [Next]_tableVars
                 PROVE  TableInv' /\ FaceUpFinite'
      OBVIOUS
    <2>1. CASE EnterDiscussion \/ BackToLobby
      <3>1. phase' \in {"lobby", "discussion"} /\ faceUp' = {}
        BY <2>1 DEF EnterDiscussion, BackToLobby, ResetRound
      <3> QED
        BY <3>1, IdlePhaseInv, FS_EmptySet DEF FaceUpFinite
    <2>2. CASE BeginPlacement
      BY <2>2, DealInv
    <2>3. CASE EnterResultAfterReveal \/ FailByTimeout \/ FailByPlayerLeft
      <3>1. phase' = "result" /\ faceUp' = faceUp
        BY <2>3 DEF EnterResultAfterReveal, FailByTimeout, FailByPlayerLeft, FailWith, roundVars
      <3> QED
        BY <3>1, IdlePhaseInv DEF FaceUpFinite
    <2>4. ASSUME NEW s \in Seats, NEW c \in Card, NEW g \in Segments,
                 NEW now \in BOOLEAN, NEW ok \in BOOLEAN,
                 PlaceWithHint(s, c, g, now, ok) \/ PlaceWithoutHint(s, c, g, now, ok)
          PROVE  TableInv' /\ FaceUpFinite'
      BY <2>4, PlaceWithHintInv, PlaceWithoutHintInv
    <2>5. ASSUME NEW decision \in {"yes", "no"}, NEW ok \in BOOLEAN,
                 HintDecision(decision, ok)
          PROVE  TableInv' /\ FaceUpFinite'
      BY <2>5, HintDecisionInv
    <2>6. ASSUME NEW ok \in BOOLEAN, LateReveal(ok) PROVE TableInv' /\ FaceUpFinite'
      BY <2>6, LateRevealInv
    <2>7. CASE UNCHANGED tableVars
      BY <2>7 DEF tableVars, roundVars, FaceUpFinite, TableInv, CardsConserved, GoesRound,
         SomebodyIsDue, MarkersPayForFaceUp, BlindUntilSettled, WindowOnLastCard,
         NeverOverfull, RevealIsScored, OnTable
    <2> QED
      BY <2>1, <2>2, <2>3, <2>4, <2>5, <2>6, <2>7 DEF Next
  <1> QED
    BY <1>1, <1>2, TypeCorrect, PTL DEF Spec

-----------------------------------------------------------------------------
(* Whose turn it is can play.  A hand shrinks by the cards its seat played, *)
(* and the plays go round: counted from the seat that is due next, no seat  *)
(* has played more than a later one, and none is more than a card ahead.    *)

HandsShrink ==
  \A s \in Seats :
    IsFiniteSet(hands[s]) /\ Cardinality(hands[s]) + playedCount[s] = HandSize

\* The place of seat s in the circle that begins with seat n.
Place(n, s) == IF s >= n THEN s - n ELSE s + NSeats - n

Even(n, counts) ==
  \A s, t \in Seats :
    Place(n, s) <= Place(n, t) => counts[s] <= counts[t] /\ counts[t] <= counts[s] + 1

Rounds ==
  phase = "placing" =>
    /\ HandsShrink
    /\ played = <<>> => \A s \in Seats : playedCount[s] = 0
    /\ played # <<>> => Even(NextSeatAfter(played[Len(played)].seat), playedCount)

LEMMA EvenAfterPlay ==
  ASSUME NEW n \in Seats, NEW counts \in [Seats -> Nat], Even(n, counts)
  PROVE  Even(NextSeatAfter(n), [counts EXCEPT ![n] = @ + 1])
  <1> DEFINE m == NextSeatAfter(n)
             after == [counts EXCEPT ![n] = @ + 1]
  <1> SUFFICES ASSUME NEW s \in Seats, NEW t \in Seats, Place(m, s) <= Place(m, t)
               PROVE  after[s] <= after[t] /\ after[t] <= after[s] + 1
    BY DEF Even
  <1>1. /\ NSeats \in Nat /\ n \in 1..NSeats /\ s \in 1..NSeats /\ t \in 1..NSeats
        /\ counts[s] \in Nat /\ counts[t] \in Nat /\ counts[n] \in Nat
        /\ after[s] = (IF s = n THEN counts[n] + 1 ELSE counts[s])
        /\ after[t] = (IF t = n THEN counts[n] + 1 ELSE counts[t])
    BY TableAssumption DEF Seats
  <1>2. \A r \in Seats : Place(m, r) = (IF r = n THEN NSeats - 1 ELSE Place(n, r) - 1)
    BY <1>1 DEF Place, NextSeatAfter, Seats
  <1>3. Place(n, n) = 0 /\ Place(n, s) \in 0..(NSeats - 1) /\ Place(n, t) \in 0..(NSeats - 1)
    BY <1>1 DEF Place
  <1>4. /\ Place(n, s) <= Place(n, t) => counts[s] <= counts[t] /\ counts[t] <= counts[s] + 1
        /\ counts[n] <= counts[s] /\ counts[s] <= counts[n] + 1
        /\ counts[n] <= counts[t] /\ counts[t] <= counts[n] + 1
    BY <1>3 DEF Even
  <1>5. Place(n, t) # 0 \/ t = n
    BY <1>1 DEF Place
  <1> HIDE DEF m, after
  <1>6. CASE s # n /\ t # n
    BY <1>1, <1>2, <1>3, <1>4, <1>6
  <1>7. CASE s # n /\ t = n
    BY <1>1, <1>4, <1>7
  <1>8. CASE s = n
    <2>1. t = n
      BY <1>1, <1>2, <1>3, <1>8
    <2> QED
      BY <2>1, <1>1, <1>8
  <1> QED
    BY <1>6, <1>7, <1>8

LEMMA PutDownRounds ==
  ASSUME TypeOK, TableInv, Rounds, NEW s \in Seats, NEW c \in Card, NEW g \in Segments,
         MayPlace(s, c), PutDown(s, c, g)
  PROVE  Rounds'
  <1>1. /\ phase = "placing" /\ c \in hands[s]
        /\ played # <<>> => s = NextSeatAfter(played[Len(played)].seat)
    BY MayPlaceFacts DEF MayPlace
  <1>2. /\ hands \in [Seats -> SUBSET Card] /\ hands' = [hands EXCEPT ![s] = @ \ {c}]
        /\ playedCount \in [Seats -> Nat] /\ playedCount' = [playedCount EXCEPT ![s] = @ + 1]
    BY DEF TypeOK, PutDown
  <1>3. HandsShrink'
    <2>1. ASSUME NEW t \in Seats
          PROVE  IsFiniteSet(hands'[t]) /\ Cardinality(hands'[t]) + playedCount'[t] = HandSize
      <3>1. IsFiniteSet(hands[t]) /\ Cardinality(hands[t]) + playedCount[t] = HandSize
        BY <1>1 DEF Rounds, HandsShrink
      <3>2. Cardinality(hands[t]) \in Nat /\ playedCount[t] \in Nat
        BY <3>1, <1>2, FS_CardinalityType
      <3>3. CASE t = s
        <4>1. hands'[t] = hands[t] \ {c} /\ playedCount'[t] = playedCount[t] + 1 /\ c \in hands[t]
          BY <3>3, <1>1, <1>2
        <4>2. IsFiniteSet(hands[t] \ {c}) /\ Cardinality(hands[t] \ {c}) = Cardinality(hands[t]) - 1
          BY <4>1, <3>1, FS_RemoveElement
        <4> QED
          BY <4>1, <4>2, <3>1, <3>2
      <3>4. CASE t # s
        BY <3>1, <3>4, <1>2
      <3> QED
        BY <3>3, <3>4
    <2> QED
      BY <2>1 DEF HandsShrink
  <1>4. Even(s, playedCount)
    <2>1. CASE played = <<>>
      <3>1. \A t \in Seats : playedCount[t] = 0
        BY <2>1, <1>1 DEF Rounds
      <3> QED
        BY <3>1 DEF Even
    <2>2. CASE played # <<>>
      BY <2>2, <1>1 DEF Rounds
    <2> QED
      BY <2>1, <2>2
  <1>5. Even(NextSeatAfter(s), playedCount')
    BY <1>2, <1>4, EvenAfterPlay
  <1>6. Len(played) \in Nat /\ Len(played') = Len(played) + 1 /\ played'[Len(played')].seat = s
    BY PutDownFacts DEF TypeOK
  <1>7. played' # <<>>
    BY <1>6
  <1> QED
    BY <1>3, <1>5, <1>6, <1>7 DEF Rounds

LEMMA DealRounds ==
  ASSUME BeginPlacement
  PROVE  Rounds'
  <1>1. /\ hands' = [s \in Seats |-> HandOf(s)] /\ playedCount' = [s \in Seats |-> 0]
        /\ played' = <<>>
    BY DEF BeginPlacement, ResetRound
  <1>2. ASSUME NEW s \in Seats
        PROVE  IsFiniteSet(HandOf(s)) /\ Cardinality(HandOf(s)) = HandSize
    <2>1. HandSize \in Nat \ {0}
      BY TableAssumption
    <2>2. IsFiniteSet(1..HandSize) /\ Cardinality(1..HandSize) = HandSize
      BY <2>1, FS_Interval
    <2>3. IsFiniteSet({s}) /\ Cardinality({s}) = 1
      BY FS_Singleton
    <2>4. IsFiniteSet({s} \X (1..HandSize)) /\ Cardinality({s} \X (1..HandSize)) = 1 * HandSize
      BY <2>2, <2>3, FS_Product
    <2> QED
      BY <2>1, <2>4 DEF HandOf
  <1>3. HandsShrink'
    BY <1>1, <1>2, TableAssumption DEF HandsShrink
  <1> QED
    BY <1>1, <1>3 DEF Rounds

LEMMA RoundsInvariant == Spec => []Rounds
  <1>1. Init => Rounds
    BY DEF Init, Rounds
  <1>2. TypeOK /\ TableInv /\ Rounds /\ [Next]_tableVars => Rounds'
    <2> SUFFICES ASSUME TypeOK, TableInv, Rounds, [Next]_tableVars PROVE Rounds'
      OBVIOUS
    <2>1. CASE EnterDiscussion \/ BackToLobby \/ EnterResultAfterReveal \/ FailByTimeout
               \/ FailByPlayerLeft
      BY <2>1 DEF EnterDiscussion, BackToLobby, EnterResultAfterReveal, FailByTimeout,
                  FailByPlayerLeft, FailWith, Rounds
    <2>2. CASE BeginPlacement
      BY <2>2, DealRounds
    <2>3. ASSUME NEW s \in Seats, NEW c \in Card, NEW g \in Segments,
                 NEW now \in BOOLEAN, NEW ok \in BOOLEAN,
                 PlaceWithHint(s, c, g, now, ok) \/ PlaceWithoutHint(s, c, g, now, ok)
          PROVE  Rounds'
      <3>1. MayPlace(s, c) /\ PutDown(s, c, g)
        BY <2>3 DEF PlaceWithHint, PlaceWithoutHint
      <3> QED
        BY <3>1, PutDownRounds
    <2>4. ASSUME NEW decision \in {"yes", "no"}, NEW ok \in BOOLEAN,
                 HintDecision(decision, ok)
          PROVE  Rounds'
      BY <2>4 DEF HintDecision, Rounds, HandsShrink
    <2>5. ASSUME NEW ok \in BOOLEAN, LateReveal(ok) PROVE Rounds'
      BY <2>5 DEF LateReveal, Rounds, HandsShrink
    <2>6. CASE UNCHANGED tableVars
      BY <2>6 DEF tableVars, roundVars, Rounds, HandsShrink
    <2> QED
      BY <2>1, <2>2, <2>3, <2>4, <2>5, <2>6 DEF Next
  <1> QED
    BY <1>1, <1>2, TypeCorrect, TableSafe, PTL DEF Spec

\* A hand that is empty at its seat's turn makes every hand empty, and then
\* all cards are on a table that is not full.
LEMMA HolderCanPlay ==
  ASSUME TypeOK, TableInv, Rounds
  PROVE  TurnHolderHasCard
  <1> SUFFICES ASSUME phase = "placing", turn \in Seats, hands[turn] = {}
               PROVE  FALSE
    BY DEF TurnHolderHasCard
  <1>1. played # <<>> /\ turn = NextSeatAfter(played[Len(played)].seat)
    BY DEF TableInv, GoesRound
  <1>2. Even(turn, playedCount) /\ HandsShrink
    BY <1>1 DEF Rounds
  <1>3. ASSUME NEW s \in Seats PROVE hands[s] = {}
    <2>1. /\ IsFiniteSet(hands[s]) /\ Cardinality(hands[s]) + playedCount[s] = HandSize
          /\ Cardinality(hands[turn]) + playedCount[turn] = HandSize
          /\ Cardinality(hands[turn]) = 0
      BY <1>2, FS_EmptySet DEF HandsShrink
    <2>2. Cardinality(hands[s]) \in Nat /\ playedCount[s] \in Nat /\ playedCount[turn] \in Nat
      BY <2>1, FS_CardinalityType DEF TypeOK
    <2>3. Place(turn, turn) <= Place(turn, s)
      BY TableAssumption DEF Place, Seats
    <2>4. playedCount[turn] <= playedCount[s]
      BY <2>3, <1>2 DEF Even
    <2>5. Cardinality(hands[s]) = 0
      BY <2>1, <2>2, <2>4
    <2> QED
      BY <2>1, <2>5, FS_EmptySet
  <1>4. ASSUME NEW c \in Card PROVE c \in OnTable(played)
    <2>1. c[1] \in Seats /\ c \in HandOf(c[1])
      BY DEF Card, HandOf
    <2>2. hands[c[1]] = HandOf(c[1]) \ OnTable(played)
      BY <2>1 DEF TableInv, CardsConserved
    <2> QED
      BY <2>1, <2>2, <1>3
  <1>5. IsFiniteSet(Card) /\ Cardinality(Card) = TableCards
    <2>1. NSeats \in Nat \ {0} /\ HandSize \in Nat \ {0}
      BY TableAssumption
    <2>2. IsFiniteSet(1..NSeats) /\ Cardinality(1..NSeats) = NSeats
      BY <2>1, FS_Interval
    <2>3. IsFiniteSet(1..HandSize) /\ Cardinality(1..HandSize) = HandSize
      BY <2>1, FS_Interval
    <2>4. /\ IsFiniteSet((1..NSeats) \X (1..HandSize))
          /\ Cardinality((1..NSeats) \X (1..HandSize)) = NSeats * HandSize
      <3>1. PICK S : S = 1..NSeats
        OBVIOUS
      <3>2. PICK T : T = 1..HandSize
        OBVIOUS
      <3>3. IsFiniteSet(S \X T) /\ Cardinality(S \X T) = Cardinality(S) * Cardinality(T)
        BY <2>2, <2>3, <3>1, <3>2, FS_Product
      <3> QED
        BY <2>2, <2>3, <3>1, <3>2, <3>3
    <2> QED
      BY <2>4, Zenon DEF Card, Seats, TableCards
  <1>6. IsFiniteSet(OnTable(played)) /\ Cardinality(OnTable(played)) <= Len(played)
    <2> DEFINE f == [i \in DOMAIN played |-> played[i].card]
    <2>1. DOMAIN played = 1..Len(played) /\ Len(played) \in Nat
      BY DEF TypeOK
    <2>2. IsFiniteSet(DOMAIN played) /\ Cardinality(DOMAIN played) = Len(played)
      <3>1. PICK n \in Nat : n = Len(played)
        BY <2>1
      <3>2. IsFiniteSet(1..n) /\ Cardinality(1..n) = n
        BY FS_Interval
      <3> QED
        BY <2>1, <3>1, <3>2
    <2>3. f \in Surjection(DOMAIN played, OnTable(played))
      BY DEF Surjection, OnTable
    <2> QED
      BY <2>2, <2>3, FS_Surjection
  <1>7. Cardinality(Card) <= Cardinality(OnTable(played))
    BY <1>4, <1>6, FS_Subset
  <1>8. Len(played) < TableCards
    <2>1. Len(played) \in Nat /\ Len(played) <= TableCards
      BY DEF TableInv, NeverOverfull, TypeOK
    <2>2. turn # Nobody
      BY TableAssumption
    <2>3. Len(played) # TableCards
      BY <2>2 DEF TableInv, SomebodyIsDue
    <2> QED
      BY <2>1, <2>3, TableCardsPositive
  <1>9. Cardinality(OnTable(played)) \in Nat /\ Len(played) \in Nat
    BY <1>6, FS_CardinalityType DEF TypeOK
  <1> QED
    BY <1>5, <1>6, <1>7, <1>8, <1>9, TableCardsPositive

\* The turn never comes to a seat without cards, where only a timeout is left
\* (continueAfterPlacement and nextSeatAfter, with the equal hands of
\* dealRules).
THEOREM HoldersHaveCards == Spec => []TurnHolderHasCard
  <1>1. TypeOK /\ TableInv /\ Rounds => TurnHolderHasCard
    BY HolderCanPlay
  <1> QED
    BY <1>1, TypeCorrect, TableSafe, RoundsInvariant, PTL

-----------------------------------------------------------------------------
(* Refinement of the relay of cards. *)

LEMMA StatusFacts ==
  /\ phase = "placing" => RelayStatus = "playing"
  /\ phase = "reveal" => RelayStatus = "scored"
  /\ phase = "result" /\ failureReason \in {"timeout", "player-left"} => RelayStatus = "failed"
  /\ phase = "result" /\ failureReason \notin {"timeout", "player-left"} => RelayStatus = "scored"
  /\ phase \in {"lobby", "discussion"} => RelayStatus = "off"
  BY DEF RelayStatus

LEMMA ClearedStep ==
  ASSUME phase' \in {"lobby", "discussion"}, played' = <<>>
  PROVE  Abstract!Clear
  <1>1. RelayStatus' = "off"
    BY DEF RelayStatus
  <1>2. LastSeat' = Nobody /\ Len(played') = 0
    BY DEF LastSeat
  <1> QED
    BY <1>1, <1>2 DEF Abstract!Clear

LEMMA FailedStep ==
  ASSUME TypeOK, phase \in {"discussion", "placing"}, NEW reason \in {"timeout", "player-left"},
         FailWith(reason)
  PROVE  Abstract!Fail
  <1>1. RelayStatus \in {"off", "playing"}
    BY DEF RelayStatus
  <1>2. RelayStatus' = "failed"
    BY DEF RelayStatus, FailWith
  <1>3. LastSeat' = LastSeat /\ Len(played') = Len(played)
    BY DEF LastSeat, FailWith, roundVars
  <1> QED
    BY <1>1, <1>2, <1>3 DEF Abstract!Fail

\* A card put down is one move of the relay, whatever is scored with it.
LEMMA MovedStep ==
  ASSUME TypeOK, TableInv,
         NEW s \in Seats, NEW c \in Card, NEW g \in Segments,
         NEW now \in BOOLEAN, NEW ok \in BOOLEAN,
         MayPlace(s, c), PutDown(s, c, g),
         AfterReveal(now, Len(played) + 1, faceUp, OnTable(played'), ok)
  PROVE  Abstract!Next
  <1>1. /\ phase = "placing" /\ Len(played) \in Nat /\ Len(played) < TableCards
        /\ played # <<>> => s = NextSeatAfter(played[Len(played)].seat)
    BY MayPlaceFacts
  <1>2. /\ played' # <<>> /\ Len(played') = Len(played) + 1
        /\ played'[Len(played')].seat = s
        /\ Len(played') <= TableCards
    BY PutDownGoesRound
  <1>3. phase' = "placing" \/ (phase' = "reveal" /\ Len(played') = TableCards)
    BY <1>1, <1>2, AfterRevealFacts, TableCardsPositive
  <1>4. LastSeat' = s /\ (LastSeat # Nobody => s = NextSeatAfter(LastSeat))
    BY <1>1, <1>2 DEF LastSeat
  <1>5. RelayStatus = "playing" /\ RelayStatus' \in {"playing", "scored"}
        /\ (RelayStatus' = "scored" => Len(played') = TableCards)
    BY <1>1, <1>3 DEF RelayStatus
  <1>6. Abstract!Move(s, RelayStatus')
    BY <1>1, <1>2, <1>4, <1>5
       DEF Abstract!Move, Abstract!NextSeatAfter, NextSeatAfter
  <1>7. s \in Abstract!Seats
    BY DEF Seats, Abstract!Seats
  <1> QED
    BY <1>5, <1>6, <1>7 DEF Abstract!Next

\* A step that scores without a card, or settles a window in play.
LEMMA ScoredStep ==
  ASSUME TypeOK, TableInv, phase = "placing", played' = played,
         NEW before, NEW after, NEW ok \in BOOLEAN,
         AfterReveal(TRUE, Len(played), before, after, ok)
  PROVE  Abstract!Score \/ UNCHANGED Abstract!vars
  <1>1. Len(played) \in Nat /\ Len(played) <= TableCards
    BY DEF TypeOK, TableInv, NeverOverfull
  <1>2. phase' = "placing" \/ (phase' = "reveal" /\ Len(played) = TableCards)
    <2>1. phase' = "placing" \/ (phase' = "reveal" /\ Len(played) >= TableCards)
      BY <1>1 DEF AfterReveal
    <2> QED
      BY <2>1, <1>1, TableCardsPositive
  <1>3. LastSeat' = LastSeat /\ Len(played') = Len(played)
    BY DEF LastSeat
  <1>4. RelayStatus = "playing"
    BY DEF RelayStatus
  <1>5. CASE phase' = "placing"
    <2>1. RelayStatus' = "playing"
      BY <1>5 DEF RelayStatus
    <2> QED
      BY <2>1, <1>3, <1>4 DEF Abstract!vars
  <1>6. CASE phase' = "reveal" /\ Len(played) = TableCards
    <2>1. RelayStatus' = "scored"
      BY <1>6 DEF RelayStatus
    <2> QED
      BY <2>1, <1>3, <1>4, <1>6 DEF Abstract!Score
  <1> QED
    BY <1>2, <1>5, <1>6

\* The table implements the relay: the first card from any seat, then the
\* circle, and a score only of a full table (continueAfterPlacement,
\* afterRevealIfNeeded, the failures of reveal.ts).
THEOREM TableIsRelay == Spec => PlaysAsRelay
  <1>1. Init => Abstract!Init
    BY DEF Init, Abstract!Init, RelayStatus, LastSeat
  <1>2. TypeOK /\ TableInv /\ [Next]_tableVars => [Abstract!Next]_(Abstract!vars)
    <2> SUFFICES ASSUME TypeOK, TableInv, [Next]_tableVars
                 PROVE  Abstract!Next \/ UNCHANGED Abstract!vars
      OBVIOUS
    <2>1. CASE EnterDiscussion \/ BackToLobby
      <3>1. phase' \in {"lobby", "discussion"} /\ played' = <<>>
        BY <2>1 DEF EnterDiscussion, BackToLobby, ResetRound
      <3> QED
        BY <3>1, ClearedStep DEF Abstract!Next
    <2>2. CASE BeginPlacement
      <3>1. phase = "discussion" /\ phase' = "placing" /\ played' = <<>>
        BY <2>2 DEF BeginPlacement, ResetRound
      <3>2. RelayStatus = "off" /\ RelayStatus' = "playing" /\ LastSeat' = Nobody
        BY <3>1 DEF RelayStatus, LastSeat
      <3> QED
        BY <3>1, <3>2 DEF Abstract!Next, Abstract!Start
    <2>3. CASE EnterResultAfterReveal
      <3>1. /\ phase = "reveal" /\ phase' = "result"
            /\ played' = played /\ failureReason' = failureReason
        BY <2>3 DEF EnterResultAfterReveal, roundVars
      <3>2. failureReason \notin {"timeout", "player-left"}
        BY <3>1, NoReasonAssumption DEF TableInv, RevealIsScored
      <3>3. RelayStatus = "scored" /\ RelayStatus' = "scored"
        BY <3>1, <3>2 DEF RelayStatus
      <3> QED
        BY <3>1, <3>3 DEF Abstract!vars, LastSeat
    <2>4. CASE FailByTimeout \/ FailByPlayerLeft
      <3>1. PICK reason \in {"timeout", "player-left"} : FailWith(reason)
        BY <2>4 DEF FailByTimeout, FailByPlayerLeft
      <3>2. phase \in {"discussion", "placing"}
        BY <2>4 DEF FailByTimeout, FailByPlayerLeft
      <3> QED
        BY <3>1, <3>2, FailedStep DEF Abstract!Next
    <2>5. ASSUME NEW s \in Seats, NEW c \in Card, NEW g \in Segments,
                 NEW now \in BOOLEAN, NEW ok \in BOOLEAN,
                 PlaceWithHint(s, c, g, now, ok) \/ PlaceWithoutHint(s, c, g, now, ok)
          PROVE  Abstract!Next
      <3>1. /\ MayPlace(s, c) /\ PutDown(s, c, g)
            /\ AfterReveal(now, Len(played) + 1, faceUp, OnTable(played'), ok)
        BY <2>5 DEF PlaceWithHint, PlaceWithoutHint
      <3> QED
        BY <3>1, MovedStep
    <2>6. ASSUME NEW decision \in {"yes", "no"}, NEW ok \in BOOLEAN,
                 HintDecision(decision, ok)
          PROVE  Abstract!Next \/ UNCHANGED Abstract!vars
      <3>1. PICK shown : AfterReveal(TRUE, Len(played), shown, OnTable(played), ok)
        BY <2>6 DEF HintDecision
      <3>2. phase = "placing" /\ played' = played
        BY <2>6 DEF HintDecision
      <3> QED
        BY <3>1, <3>2, ScoredStep DEF Abstract!Next
    <2>7. ASSUME NEW ok \in BOOLEAN, LateReveal(ok)
          PROVE  Abstract!Next \/ UNCHANGED Abstract!vars
      <3>1. /\ phase = "placing" /\ played' = played
            /\ AfterReveal(TRUE, Len(played), faceUp, OnTable(played), ok)
        BY <2>7 DEF LateReveal
      <3> QED
        BY <3>1, ScoredStep DEF Abstract!Next
    <2>8. CASE UNCHANGED tableVars
      BY <2>8 DEF tableVars, roundVars, Abstract!vars, RelayStatus, LastSeat
    <2> QED
      BY <2>1, <2>2, <2>3, <2>4, <2>5, <2>6, <2>7, <2>8 DEF Next
  <1> QED
    BY <1>1, <1>2, TypeCorrect, TableSafe, PTL DEF Spec, PlaysAsRelay, Abstract!Spec

-----------------------------------------------------------------------------
(* Players, agents and timers only take the steps of the table. *)

LEMMA RunLoopStep ==
  ASSUME NEW t, RunHandoffLoop(t)
  PROVE  Next \/ UNCHANGED tableVars
  <1>1. (\E ok \in BOOLEAN : LateReveal(ok)) \/ UNCHANGED tableVars
    BY DEF RunHandoffLoop
  <1> QED
    BY <1>1 DEF Next

LEMMA ReturnStep ==
  ASSUME NEW t, Return(t)
  PROVE  Next \/ UNCHANGED tableVars
  BY RunLoopStep DEF Return

LEMMA AgentPlacesStep ==
  ASSUME NEW s \in Seats, AgentPlaces(s)
  PROVE  Next
  BY DEF AgentPlaces, Next

LEMMA DropOutStep ==
  ASSUME NEW s \in Agents, DropOut(s)
  PROVE  Next \/ UNCHANGED tableVars
  <1>1. CASE \A r \in Agents \ {s} : contender[r] = "out"
    <2>1. \E t : Return(t)
      BY <1>1 DEF DropOut
    <2> QED
      BY <2>1, ReturnStep
  <1>2. CASE ~ \A r \in Agents \ {s} : contender[r] = "out"
    BY <1>2 DEF DropOut
  <1> QED
    BY <1>1, <1>2

\* The loop only waits for a turn of an agent.
LoopSeat == loop.at = "turn" => loop.seat \in Agents

LEMMA ProceedSeat ==
  ASSUME NEW t, NEW again, Proceed(t, again)
  PROVE  LoopSeat'
  BY DEF Proceed, LoopSeat, WaitingAt, Idle

LEMMA ProceedAfterRevealSeat ==
  ASSUME NEW t, NEW again, ProceedAfterReveal(t, again)
  PROVE  LoopSeat'
  BY ProceedSeat DEF ProceedAfterReveal, LoopSeat, WaitingAt

LEMMA RunLoopSeat ==
  ASSUME NEW t, RunHandoffLoop(t)
  PROVE  LoopSeat'
  BY ProceedSeat, ProceedAfterRevealSeat DEF RunHandoffLoop

LEMMA ReturnSeat ==
  ASSUME NEW t, Return(t)
  PROVE  LoopSeat'
  BY RunLoopSeat DEF Return, Idle, LoopSeat

LEMMA HandoffSeat ==
  ASSUME LoopSeat, NEW t, Handoff(t)
  PROVE  LoopSeat'
  BY ProceedAfterRevealSeat DEF Handoff, LoopSeat

LEMMA HandOffAfterHintSeat ==
  ASSUME LoopSeat, HandOffAfterHint
  PROVE  LoopSeat'
  <1>1. loop' = loop \/ Handoff(Cleared(timers))
    BY DEF HandOffAfterHint
  <1> QED
    BY <1>1, HandoffSeat DEF LoopSeat

LEMMA DropOutSeat ==
  ASSUME LoopSeat, NEW s \in Agents, DropOut(s)
  PROVE  LoopSeat'
  <1>1. loop' = loop \/ \E t : Return(t)
    BY DEF DropOut
  <1> QED
    BY <1>1, ReturnSeat DEF LoopSeat

LEMMA LoopSeatInvariant == TurnSpec => []LoopSeat
  <1>1. Init0 => LoopSeat
    BY DEF Init0, LoopSeat, Idle
  <1>2. LoopSeat /\ [Next0]_vars => LoopSeat'
    <2> SUFFICES ASSUME LoopSeat, [Next0]_vars PROVE LoopSeat'
      OBVIOUS
    <2>1. ASSUME loop' = loop PROVE LoopSeat'
      BY <2>1 DEF LoopSeat
    <2>2. CASE StartDiscussion \/ LeaveTable \/ ContinueToResult \/ PlayerLeave
               \/ Reconnect \/ TurnTimerFires
      BY <2>1, <2>2 DEF StartDiscussion, LeaveTable, ContinueToResult, runVars, PlayerLeave,
                        Reconnect, TurnTimerFires
    <2>3. CASE StartPlacement
      BY <2>3, HandoffSeat DEF StartPlacement
    <2>4. ASSUME NEW s \in Seats, NEW c \in Card, NEW g \in Segments,
                 CardPlaceWithHint(s, c, g) \/ CardPlaceWithoutHint(s, c, g)
          PROVE  LoopSeat'
      BY <2>1, <2>4, HandoffSeat DEF CardPlaceWithHint, CardPlaceWithoutHint
    <2>5. ASSUME NEW decision \in {"yes", "no"}, HintDecide(decision) PROVE LoopSeat'
      BY <2>5, HandOffAfterHintSeat DEF HintDecide
    <2>6. ASSUME NEW decision \in {"yes", "no"}, HintAnswer(decision) PROVE LoopSeat'
      BY <2>6, ProceedAfterRevealSeat, ReturnSeat DEF HintAnswer
    <2>7. CASE HandlerSaved
      BY <2>7, RunLoopSeat, HandoffSeat DEF HandlerSaved
    <2>8. CASE LoopSaved
      BY <2>8, RunLoopSeat, ProceedSeat DEF LoopSaved
    <2>9. CASE HintTimerFires
      BY <2>1, <2>9, HandOffAfterHintSeat DEF HintTimerFires
    <2>10. ASSUME NEW s \in Agents, RaceDelayEnds(s) PROVE LoopSeat'
      BY <2>1, <2>10, DropOutSeat DEF RaceDelayEnds
    <2>11. ASSUME NEW s \in Agents, RaceAnswer(s) PROVE LoopSeat'
      BY <2>11, ProceedAfterRevealSeat, DropOutSeat DEF RaceAnswer
    <2>12. CASE TurnAnswer
      BY <2>12, ProceedAfterRevealSeat, ReturnSeat DEF TurnAnswer
    <2>13. CASE UNCHANGED vars
      BY <2>1, <2>13 DEF vars, runVars
    <2> QED
      BY <2>2, <2>3, <2>4, <2>5, <2>6, <2>7, <2>8, <2>9, <2>10, <2>11, <2>12, <2>13 DEF Next0
  <1> QED
    BY <1>1, <1>2, PTL DEF TurnSpec

\* A step of the handlers, the timers and the agents is one of the table or
\* leaves it alone.
LEMMA TurnsAreTableSteps == TurnSpec => Spec
  <1>1. Init0 => Init
    BY DEF Init0
  <1>2. LoopSeat /\ [Next0]_vars => [Next]_tableVars
    <2> SUFFICES ASSUME LoopSeat, [Next0]_vars PROVE Next \/ UNCHANGED tableVars
      OBVIOUS
    <2>1. CASE StartDiscussion \/ StartPlacement \/ LeaveTable \/ ContinueToResult \/ PlayerLeave
      BY <2>1 DEF StartDiscussion, StartPlacement, LeaveTable, ContinueToResult, PlayerLeave, Next
    <2>2. CASE Reconnect
      BY <2>2 DEF Reconnect
    <2>3. ASSUME NEW s \in Seats, NEW c \in Card, NEW g \in Segments,
                 CardPlaceWithHint(s, c, g) \/ CardPlaceWithoutHint(s, c, g)
          PROVE  Next
      <3>1. CASE CardPlaceWithHint(s, c, g)
        <4>1. PlaceWithHint(s, c, g, FALSE, FALSE)
          BY <3>1 DEF CardPlaceWithHint
        <4> QED
          BY <4>1 DEF Next
      <3>2. CASE CardPlaceWithoutHint(s, c, g)
        <4>1. PICK ok \in BOOLEAN : PlaceWithoutHint(s, c, g, loop.at = "idle", ok)
          BY <3>2 DEF CardPlaceWithoutHint
        <4>2. (loop.at = "idle") \in BOOLEAN
          OBVIOUS
        <4> QED
          BY <4>1, <4>2 DEF Next
      <3> QED
        BY <2>3, <3>1, <3>2
    <2>4. ASSUME NEW decision \in {"yes", "no"}, HintDecide(decision)
          PROVE  Next
      BY <2>4 DEF HintDecide, Next
    <2>5. ASSUME NEW decision \in {"yes", "no"}, HintAnswer(decision)
          PROVE  Next \/ UNCHANGED tableVars
      <3>1. (\E ok \in BOOLEAN : HintDecision(decision, ok)) \/ Return(timers)
        BY <2>5 DEF HintAnswer
      <3> QED
        BY <3>1, ReturnStep DEF Next
    <2>6. CASE HandlerSaved
      BY <2>6, RunLoopStep DEF HandlerSaved
    <2>7. CASE LoopSaved
      BY <2>7, RunLoopStep DEF LoopSaved
    <2>8. CASE TurnTimerFires
      BY <2>8 DEF TurnTimerFires, Next
    <2>9. CASE HintTimerFires
      <3>1. (\E ok \in BOOLEAN : HintDecision("no", ok)) \/ UNCHANGED tableVars
        BY <2>9 DEF HintTimerFires
      <3> QED
        BY <3>1 DEF Next
    <2>10. ASSUME NEW s \in Agents, RaceDelayEnds(s) \/ RaceAnswer(s)
           PROVE  Next \/ UNCHANGED tableVars
      <3>1. CASE RaceDelayEnds(s)
        BY <3>1, DropOutStep DEF RaceDelayEnds
      <3>2. CASE RaceAnswer(s)
        <4>1. s \in Seats
          BY AgentsAssumption
        <4> QED
          BY <3>2, <4>1, DropOutStep, AgentPlacesStep DEF RaceAnswer
      <3> QED
        BY <2>10, <3>1, <3>2
    <2>11. CASE TurnAnswer
      <3>1. loop.seat \in Seats
        BY <2>11, AgentsAssumption DEF TurnAnswer, LoopSeat
      <3>2. AgentPlaces(loop.seat) \/ Return(timers)
        BY <2>11 DEF TurnAnswer
      <3> QED
        BY <3>1, <3>2, AgentPlacesStep, ReturnStep
    <2>12. CASE UNCHANGED vars
      BY <2>12 DEF vars
    <2> QED
      BY <2>1, <2>2, <2>3, <2>4, <2>5, <2>6, <2>7, <2>8, <2>9, <2>10, <2>11, <2>12 DEF Next0
  <1> QED
    BY <1>1, <1>2, LoopSeatInvariant, PTL DEF TurnSpec, Spec

\* So the invariant of the table holds under every schedule of players,
\* agents, timers and saves.
THEOREM TurnsSafe == TurnSpec => []TableInv
  <1>1. TurnSpec => Spec
    BY TurnsAreTableSteps
  <1> QED
    BY <1>1, TableSafe, PTL

-----------------------------------------------------------------------------
(* What the loop and the timers keep.  A version stands for the table: no   *)
(* step of the table leaves both as they were.  So a loop that has captured *)
(* the versions of now waits for what is due now, and every change that it  *)
(* does not make itself asks for a rerun.                                   *)

TimerRecord ==
  [turn : Nat, hint : Nat, shown : {"none", "turn", "hint"}, activeFor : Nat,
   grantedTo : Nat, grants : Nat]

LoopTyped ==
  /\ timers \in TimerRecord
  /\ loop.at \in LoopPlaces
  /\ loop.phaseVersion \in Nat /\ loop.turnVersion \in Nat
  /\ contender \in [Agents -> {"out", "delay", "thinking"}]
  /\ rerun \in BOOLEAN

\* What timers may be at a table of phase ph, window hint and turn version v:
\* an armed turn timer is the one of the last deadline that was computed, the
\* turn of now has its deadline shown once it has one, and a player's window
\* has its timer.
Fit(t, ph, hint, v) ==
  /\ t.grantedTo <= v
  /\ t.turn # 0 => t.turn = t.grantedTo
  /\ t.shown = "turn" => t.activeFor = t.grantedTo
  /\ ph = "placing" /\ hint = NoHint /\ t.grantedTo = v => t.shown = "turn"
  /\ ph = "placing" /\ hint # NoHint /\ hint.seat \in Players => t.hint = v

TimersFit == Fit(timers, phase, pendingHint, turnVersion)
FitAfter(t) == Fit(t, phase', pendingHint', turnVersion')

\* From timers t to timers u a deadline is computed for a later turn only.
GrantsOnce(t, u) ==
  (u.grants = t.grants /\ u.grantedTo = t.grantedTo) \/ t.grantedTo < u.grantedTo

\* A loop that holds the versions of now was started for this very table.
LoopCaptured ==
  /\ loop.phaseVersion <= phaseVersion /\ loop.turnVersion <= turnVersion
  /\ loop.at \in {"race", "turn", "hint"} /\ VersionsHold =>
       /\ loop.seen = Seen
       /\ loop.at = "race" => turn = Race /\ pendingHint = NoHint

Busy == loop.at # "idle" /\ (rerun \/ loop.at = "saving")

AgentDue ==
  \/ turn \in Agents
  \/ turn = Race /\ Agents # {}
  \/ pendingHint # NoHint /\ pendingHint.seat \in Agents

PlayerDue == turn \in Players \cup {Race}

TurnHasDeadline == phase = "placing" /\ PlayerDue => timers.turn = turnVersion \/ Busy

LoopGood == LoopTyped /\ TimersFit /\ LoopCaptured /\ AgentIsAsked /\ TurnHasDeadline

\* What was asked for last is not newer than the table.
KeyKnown ==
  /\ key \in Nat \X Nat
  /\ key[1] <= phaseVersion /\ key[2] <= turnVersion

TurnsInv == LoopGood /\ KeyKnown /\ saves \in Nat

-----------------------------------------------------------------------------
(* Facts about the table. *)

LEMMA VersionsGrow ==
  ASSUME TypeOK, Next
  PROVE  /\ phaseVersion' >= phaseVersion /\ turnVersion' >= turnVersion
         /\ phaseVersion' > phaseVersion \/ turnVersion' > turnVersion
  <1>1. phaseVersion \in Nat /\ turnVersion \in Nat
    BY DEF TypeOK
  <1>2. CASE EnterDiscussion \/ BeginPlacement \/ BackToLobby \/ EnterResultAfterReveal
             \/ FailByTimeout \/ FailByPlayerLeft
    BY <1>1, <1>2 DEF EnterDiscussion, BeginPlacement, BackToLobby, EnterResultAfterReveal,
                      FailByTimeout, FailByPlayerLeft, FailWith, ResetRound
  <1>3. ASSUME NEW s \in Seats, NEW c \in Card, NEW g \in Segments,
               NEW now \in BOOLEAN, NEW ok \in BOOLEAN,
               PlaceWithHint(s, c, g, now, ok) \/ PlaceWithoutHint(s, c, g, now, ok)
        PROVE  turnVersion' = turnVersion + 1 /\ phaseVersion' \in {phaseVersion, phaseVersion + 1}
    BY <1>3 DEF PlaceWithHint, PlaceWithoutHint, ContinueAfter, AfterReveal
  <1>4. ASSUME NEW decision \in {"yes", "no"}, NEW ok \in BOOLEAN, HintDecision(decision, ok)
        PROVE  turnVersion' = turnVersion + 1 /\ phaseVersion' \in {phaseVersion, phaseVersion + 1}
    BY <1>4 DEF HintDecision, ContinueAfter, AfterReveal
  <1>5. ASSUME NEW ok \in BOOLEAN, LateReveal(ok)
        PROVE  turnVersion' = turnVersion /\ phaseVersion' = phaseVersion + 1
    BY <1>5 DEF LateReveal, AfterReveal
  <1> QED
    BY <1>1, <1>2, <1>3, <1>4, <1>5 DEF Next

LEMMA PlayFacts ==
  ASSUME TypeOK, NEW s \in Seats, NEW c \in Card, NEW g \in Segments,
         NEW now \in BOOLEAN, NEW ok \in BOOLEAN,
         PlaceWithHint(s, c, g, now, ok) \/ PlaceWithoutHint(s, c, g, now, ok)
  PROVE  /\ turnVersion' = turnVersion + 1
         /\ phase = "placing" /\ phase' \in {"placing", "reveal"}
         /\ pendingHint' = NoHint \/ pendingHint'.seat = s
         /\ playedCount' = [playedCount EXCEPT ![s] = @ + 1]
         /\ failureReason' \in {failureReason, NoReason, "rule-unmet"}
  BY DEF PlaceWithHint, PlaceWithoutHint, MayPlace, PutDown, ContinueAfter, AfterReveal

LEMMA DecisionFacts ==
  ASSUME TypeOK, NEW decision, NEW ok \in BOOLEAN, HintDecision(decision, ok)
  PROVE  /\ turnVersion' = turnVersion + 1
         /\ phase = "placing" /\ phase' \in {"placing", "reveal"}
         /\ pendingHint' = NoHint
         /\ playedCount' = playedCount
         /\ failureReason' \in {failureReason, NoReason, "rule-unmet"}
  BY DEF HintDecision, ContinueAfter, AfterReveal

LEMMA AgentPlacesFacts ==
  ASSUME TypeOK, NEW s \in Seats, AgentPlaces(s)
  PROVE  /\ turnVersion' = turnVersion + 1
         /\ phase = "placing" /\ phase' \in {"placing", "reveal"}
         /\ pendingHint' = NoHint \/ pendingHint'.seat = s
         /\ playedCount' = [playedCount EXCEPT ![s] = @ + 1]
         /\ failureReason' \in {failureReason, NoReason, "rule-unmet"}
  <1>1. PICK c \in Card, g \in Segments, ok \in BOOLEAN :
          PlaceWithHint(s, c, g, TRUE, ok) \/ PlaceWithoutHint(s, c, g, TRUE, ok)
    BY DEF AgentPlaces
  <1> QED
    BY <1>1, PlayFacts

\* Nobody has the turn while a window is open.
LEMMA WindowOrTurn ==
  ASSUME TypeOK, TableInv, phase = "placing", pendingHint # NoHint
  PROVE  turn = Nobody /\ turn \notin Seats /\ turn # Race
  BY TableAssumption DEF TableInv, SomebodyIsDue

-----------------------------------------------------------------------------
(* Timers. *)

LEMMA TimerTypes ==
  ASSUME NEW t \in TimerRecord, NEW v \in Nat
  PROVE  /\ Cleared(t) \in TimerRecord
         /\ TurnStarted(t, v) \in TimerRecord
         /\ HintStarted(t, v) \in TimerRecord
         /\ [t EXCEPT !.turn = 0] \in TimerRecord /\ [t EXCEPT !.hint = 0] \in TimerRecord
  <1>1. Cleared(t) \in TimerRecord
    BY DEF TimerRecord, Cleared
  <1>2. TurnStarted(t, v) \in TimerRecord
    <2>1. t.grants \in Nat /\ t.grants + 1 \in Nat
      BY DEF TimerRecord
    <2> QED
      BY <2>1 DEF TimerRecord, TurnStarted
  <1>3. HintStarted(t, v) \in TimerRecord
    BY DEF TimerRecord, HintStarted
  <1>4. [t EXCEPT !.turn = 0] \in TimerRecord /\ [t EXCEPT !.hint = 0] \in TimerRecord
    BY DEF TimerRecord
  <1> QED
    BY <1>1, <1>2, <1>3, <1>4

LEMMA ClearedFields ==
  ASSUME NEW t \in TimerRecord
  PROVE  /\ Cleared(t).turn = 0 /\ Cleared(t).hint = 0
         /\ Cleared(t).shown = "none" /\ Cleared(t).activeFor = 0
         /\ Cleared(t).grantedTo = t.grantedTo /\ Cleared(t).grants = t.grants
  BY DEF TimerRecord, Cleared

LEMMA TurnStartedFields ==
  ASSUME NEW t \in TimerRecord, NEW v \in Nat
  PROVE  LET u == TurnStarted(t, v)
             kept == t.shown = "turn" /\ t.activeFor = v
         IN  /\ u.turn = v /\ u.hint = t.hint /\ u.shown = "turn" /\ u.activeFor = v
             /\ kept => u.grantedTo = t.grantedTo /\ u.grants = t.grants
             /\ ~kept => u.grantedTo = v
  BY DEF TimerRecord, TurnStarted

LEMMA HintStartedFields ==
  ASSUME NEW t \in TimerRecord, NEW v \in Nat
  PROVE  LET u == HintStarted(t, v)
         IN  /\ u.turn = t.turn /\ u.hint = v /\ u.shown = "hint" /\ u.activeFor = t.activeFor
             /\ u.grantedTo = t.grantedTo /\ u.grants = t.grants
  BY DEF TimerRecord, HintStarted

\* Starting the turn timer fits, and keeps the deadline of a turn that has one.
LEMMA TurnStartedFits ==
  ASSUME NEW t \in TimerRecord, NEW ph, NEW v \in Nat, Fit(t, ph, NoHint, v),
         ph = "placing"
  PROVE  /\ Fit(TurnStarted(t, v), ph, NoHint, v)
         /\ GrantsOnce(t, TurnStarted(t, v))
         /\ TurnStarted(t, v).turn = v
  <1> DEFINE u == TurnStarted(t, v)
  <1>1. /\ u.turn = v /\ u.hint = t.hint /\ u.shown = "turn" /\ u.activeFor = v
        /\ t.shown = "turn" /\ t.activeFor = v => u.grantedTo = t.grantedTo /\ u.grants = t.grants
        /\ ~(t.shown = "turn" /\ t.activeFor = v) => u.grantedTo = v
    BY TurnStartedFields
  <1>2. t.grantedTo \in Nat /\ t.grantedTo <= v
    BY DEF TimerRecord, Fit
  <1> HIDE DEF u
  <1>3. u.grantedTo = v
    BY <1>1 DEF Fit
  <1>4. GrantsOnce(t, u)
    BY <1>1, <1>2, <1>3 DEF Fit, GrantsOnce
  <1> QED
    BY <1>1, <1>3, <1>4 DEF Fit, u

\* Timers that are cleared fit a table where no deadline was computed yet.
LEMMA ClearedFits ==
  ASSUME NEW t \in TimerRecord, NEW ph, NEW hint, NEW v \in Nat,
         t.grantedTo <= v,
         ph = "placing" => t.grantedTo # v /\ (hint = NoHint \/ hint.seat \notin Players)
  PROVE  Fit(Cleared(t), ph, hint, v)
  BY ClearedFields DEF Fit

LEMMA GrantsClear ==
  ASSUME NEW t \in TimerRecord
  PROVE  GrantsOnce(t, Cleared(t))
  BY ClearedFields DEF GrantsOnce

LEMMA GrantsTransitive ==
  ASSUME NEW t \in TimerRecord, NEW u \in TimerRecord, NEW w \in TimerRecord,
         GrantsOnce(t, u), GrantsOnce(u, w)
  PROVE  GrantsOnce(t, w)
  <1>1. t.grantedTo \in Nat /\ u.grantedTo \in Nat /\ w.grantedTo \in Nat
    BY DEF TimerRecord
  <1> QED
    BY <1>1 DEF GrantsOnce

-----------------------------------------------------------------------------
(* The loop looks at the table, returns, or is asked to look. *)

LEMMA ProceedGood ==
  ASSUME TypeOK', TableInv', NEW t \in TimerRecord, FitAfter(t),
         NEW again \in BOOLEAN, Proceed(t, again)
  PROVE  LoopGood' /\ GrantsOnce(t, timers')
  <1> DEFINE open == phase' = "placing" /\ pendingHint' = NoHint
             place == CASE phase' = "placing" /\ pendingHint' # NoHint ->
                             IF pendingHint'.seat \in Agents THEN "hint" ELSE "idle"
                        [] open /\ turn' = Race -> IF Agents # {} THEN "race" ELSE "idle"
                        [] open /\ turn' \in Agents -> "turn"
                        [] OTHER -> "idle"
  <1>1. /\ timers' = IF open THEN TurnStarted(t, turnVersion') ELSE t
        /\ loop' = IF place = "idle" THEN Idle ELSE WaitingAt(place)
        /\ contender' = [s \in Agents |-> IF place = "race" THEN "delay" ELSE "out"]
        /\ rerun' = (again /\ place # "idle")
    BY DEF Proceed
  <1>2. turnVersion' \in Nat /\ phaseVersion' \in Nat
    BY DEF TypeOK
  <1>3. phase' = "placing" /\ pendingHint' # NoHint => turn' = Nobody
    BY DEF TableInv, SomebodyIsDue
  <1>4. Race \notin Agents /\ Nobody \notin Agents /\ Nobody # Race /\ Nobody \notin Players
    BY TableAssumption, AgentsAssumption DEF Players
  <1>5. place \in {"idle", "hint", "race", "turn"}
    OBVIOUS
  <1>6. /\ phase' = "placing" /\ AgentDue' => place # "idle"
        /\ place # "idle" => phase' = "placing"
        /\ place = "race" => turn' = Race /\ pendingHint' = NoHint
    BY <1>3, <1>4 DEF AgentDue
  <1>7. /\ timers' \in TimerRecord /\ TimersFit' /\ GrantsOnce(t, timers')
        /\ open => timers'.turn = turnVersion'
    <2>1. CASE open
      <3>1. timers' = TurnStarted(t, turnVersion')
        BY <1>1, <2>1
      <3>2. Fit(t, phase', NoHint, turnVersion')
        BY <2>1 DEF FitAfter
      <3>3. /\ Fit(timers', phase', NoHint, turnVersion')
            /\ GrantsOnce(t, timers') /\ timers'.turn = turnVersion'
        BY <3>1, <3>2, <2>1, <1>2, TurnStartedFits
      <3>4. timers' \in TimerRecord
        BY <3>1, <1>2, TimerTypes
      <3> QED
        BY <2>1, <3>3, <3>4 DEF TimersFit
    <2>2. CASE ~open
      BY <1>1, <2>2 DEF TimersFit, FitAfter, GrantsOnce
    <2> QED
      BY <2>1, <2>2
  <1> HIDE DEF place, open
  <1>8. CASE place = "idle"
    <2>1. loop' = Idle
      BY <1>1, <1>8
    <2>2. loop'.at = "idle" /\ loop'.phaseVersion = 0 /\ loop'.turnVersion = 0
      BY <2>1 DEF Idle
    <2>3. LoopTyped'
      BY <1>1, <1>7, <2>2 DEF LoopTyped, LoopPlaces
    <2>4. LoopCaptured'
      BY <1>2, <2>2 DEF LoopCaptured
    <2>5. AgentIsAsked'
      BY <1>6, <1>8 DEF AgentIsAsked, AgentDue
    <2>6. TurnHasDeadline'
      BY <1>3, <1>4, <1>7 DEF TurnHasDeadline, PlayerDue, open
    <2> QED
      BY <1>7, <2>3, <2>4, <2>5, <2>6 DEF LoopGood
  <1>9. CASE place # "idle"
    <2>1. loop' = WaitingAt(place)
      BY <1>1, <1>9
    <2>2. /\ loop'.at = place /\ loop'.phaseVersion = phaseVersion'
          /\ loop'.turnVersion = turnVersion' /\ loop'.seen = Seen'
      BY <2>1 DEF WaitingAt
    <2>3. LoopTyped'
      BY <1>1, <1>2, <1>5, <1>7, <2>2 DEF LoopTyped, LoopPlaces
    <2>4. LoopCaptured'
      BY <1>2, <1>6, <2>2 DEF LoopCaptured
    <2>5. AgentIsAsked'
      BY <1>5, <1>9, <2>2 DEF AgentIsAsked, VersionsHold
    <2>6. TurnHasDeadline'
      BY <1>3, <1>4, <1>7 DEF TurnHasDeadline, PlayerDue, open
    <2> QED
      BY <1>7, <2>3, <2>4, <2>5, <2>6 DEF LoopGood
  <1> QED
    BY <1>7, <1>8, <1>9

LEMMA ProceedAfterRevealGood ==
  ASSUME TypeOK', TableInv', NEW t \in TimerRecord, FitAfter(t),
         NEW again \in BOOLEAN, ProceedAfterReveal(t, again)
  PROVE  LoopGood' /\ GrantsOnce(t, timers')
  <1>1. CASE ~(phase = "placing" /\ phase' = "reveal")
    BY <1>1, ProceedGood DEF ProceedAfterReveal
  <1>2. CASE phase = "placing" /\ phase' = "reveal"
    <2>1. turnVersion' \in Nat /\ phaseVersion' \in Nat
      BY DEF TypeOK
    <2>2. Cleared(t) \in TimerRecord
      BY <2>1, TimerTypes
    <2>3. FitAfter(Cleared(t))
      BY <1>2, <2>1, ClearedFits DEF FitAfter, Fit
    <2>4. GrantsOnce(t, Cleared(t))
      BY GrantsClear
    <2>5. CASE failureReason' = NoReason
      <3>1. /\ timers' = Cleared(t) /\ loop' = WaitingAt("saving")
            /\ contender' = NoContenders /\ rerun' = again
        BY <1>2, <2>5 DEF ProceedAfterReveal
      <3>2. loop'.at = "saving" /\ loop'.phaseVersion = phaseVersion'
              /\ loop'.turnVersion = turnVersion'
        BY <3>1 DEF WaitingAt
      <3>3. LoopTyped'
        BY <2>1, <2>2, <3>1, <3>2 DEF LoopTyped, LoopPlaces, NoContenders
      <3>4. TimersFit' /\ LoopCaptured'
        BY <2>1, <2>3, <3>1, <3>2 DEF TimersFit, FitAfter, LoopCaptured
      <3>5. AgentIsAsked' /\ TurnHasDeadline'
        BY <1>2 DEF AgentIsAsked, TurnHasDeadline
      <3> QED
        BY <2>4, <3>1, <3>3, <3>4, <3>5 DEF LoopGood
    <2>6. CASE failureReason' # NoReason
      <3>1. Proceed(Cleared(t), again)
        BY <1>2, <2>6 DEF ProceedAfterReveal
      <3>2. LoopGood' /\ GrantsOnce(Cleared(t), timers')
        BY <2>2, <2>3, <3>1, ProceedGood
      <3>3. GrantsOnce(t, timers')
        BY <3>2, ClearedFields DEF GrantsOnce
      <3> QED
        BY <3>2, <3>3
    <2> QED
      BY <2>5, <2>6
  <1> QED
    BY <1>1, <1>2

LEMMA RunLoopGood ==
  ASSUME TypeOK, TypeOK', TableInv', NEW t \in TimerRecord,
         Fit(t, phase, pendingHint, turnVersion), RunHandoffLoop(t)
  PROVE  LoopGood' /\ GrantsOnce(t, timers')
  <1>1. CASE phase = "placing" /\ Len(played) >= TableCards
    <2>1. PICK ok \in BOOLEAN : LateReveal(ok) /\ ProceedAfterReveal(t, FALSE)
      BY <1>1 DEF RunHandoffLoop
    <2>2. phase' = "reveal" /\ turnVersion' = turnVersion
      BY <2>1 DEF LateReveal, AfterReveal
    <2>3. FitAfter(t)
      BY <2>2 DEF FitAfter, Fit
    <2> QED
      BY <2>1, <2>3, ProceedAfterRevealGood
  <1>2. CASE ~(phase = "placing" /\ Len(played) >= TableCards)
    <2>1. UNCHANGED tableVars /\ Proceed(t, FALSE)
      BY <1>2 DEF RunHandoffLoop
    <2>2. FitAfter(t)
      BY <2>1 DEF FitAfter, tableVars, roundVars
    <2> QED
      BY <2>1, <2>2, ProceedGood
  <1> QED
    BY <1>1, <1>2

\* The loop may stop when nobody is due whom it has not asked or armed for.
LEMMA ReturnGood ==
  ASSUME TypeOK, TypeOK', TableInv', LoopTyped, NEW t \in TimerRecord,
         Fit(t, phase, pendingHint, turnVersion), Return(t),
         phase = "placing" /\ AgentDue => rerun,
         phase = "placing" /\ PlayerDue => t.turn = turnVersion \/ rerun
  PROVE  LoopGood' /\ GrantsOnce(t, timers')
  <1>1. CASE rerun
    BY <1>1, RunLoopGood DEF Return
  <1>2. CASE ~rerun
    <2>1. /\ loop' = Idle /\ contender' = NoContenders /\ timers' = t /\ rerun' = rerun
          /\ UNCHANGED tableVars
      BY <1>2 DEF Return
    <2>2. loop'.at = "idle" /\ loop'.phaseVersion = 0 /\ loop'.turnVersion = 0
      BY <2>1 DEF Idle
    <2>3. turnVersion' \in Nat /\ phaseVersion' \in Nat
      BY DEF TypeOK
    <2>4. LoopTyped'
      BY <2>1, <2>2 DEF LoopTyped, LoopPlaces, NoContenders
    <2>5. TimersFit' /\ LoopCaptured'
      BY <2>1, <2>2, <2>3 DEF TimersFit, LoopCaptured, tableVars, roundVars
    <2>6. AgentIsAsked'
      BY <1>2, <2>1 DEF AgentIsAsked, AgentDue, tableVars, roundVars
    <2>7. TurnHasDeadline'
      BY <1>2, <2>1 DEF TurnHasDeadline, PlayerDue, tableVars, roundVars
    <2>8. GrantsOnce(t, timers')
      BY <2>1 DEF GrantsOnce
    <2> QED
      BY <2>4, <2>5, <2>6, <2>7, <2>8 DEF LoopGood
  <1> QED
    BY <1>1, <1>2

\* What the loop holds goes out of date with the first step of the table.
LEMMA CapturedStays ==
  ASSUME TypeOK, TypeOK', LoopTyped, LoopCaptured, loop' = loop, Next \/ UNCHANGED tableVars
  PROVE  LoopCaptured'
  <1>1. phaseVersion \in Nat /\ turnVersion \in Nat /\ loop.phaseVersion \in Nat
          /\ loop.turnVersion \in Nat
    BY DEF TypeOK, LoopTyped
  <1>2. CASE UNCHANGED tableVars
    BY <1>2 DEF LoopCaptured, VersionsHold, Seen, tableVars, roundVars
  <1>3. CASE Next
    <2>1. /\ phaseVersion' >= phaseVersion /\ turnVersion' >= turnVersion
          /\ phaseVersion' > phaseVersion \/ turnVersion' > turnVersion
      BY <1>3, VersionsGrow
    <2>2. phaseVersion' \in Nat /\ turnVersion' \in Nat
      BY DEF TypeOK
    <2>3. loop.phaseVersion <= phaseVersion /\ loop.turnVersion <= turnVersion
      BY DEF LoopCaptured
    <2>4. ~VersionsHold'
      BY <1>1, <2>1, <2>2, <2>3 DEF VersionsHold
    <2> QED
      BY <1>1, <2>1, <2>2, <2>3, <2>4 DEF LoopCaptured
  <1> QED
    BY <1>2, <1>3

LEMMA KeyStays ==
  ASSUME TypeOK, TypeOK', KeyKnown, key' \in {key, Key'}, Next \/ UNCHANGED tableVars
  PROVE  KeyKnown'
  <1>1. /\ phaseVersion \in Nat /\ turnVersion \in Nat
        /\ phaseVersion' \in Nat /\ turnVersion' \in Nat
    BY DEF TypeOK
  <1>2. phaseVersion' >= phaseVersion /\ turnVersion' >= turnVersion
    BY <1>1, VersionsGrow DEF tableVars
  <1> QED
    BY <1>1, <1>2 DEF KeyKnown, Key

\* A handler that has moved the table asks the loop to look again.
LEMMA HandoffGood ==
  ASSUME TypeOK, TypeOK', TableInv', LoopGood, KeyKnown, Next,
         NEW t \in TimerRecord, FitAfter(t), Handoff(t)
  PROVE  LoopGood' /\ KeyKnown' /\ GrantsOnce(t, timers')
  <1>1. KeyKnown'
    BY KeyStays DEF Handoff
  <1>2. CASE loop.at = "idle"
    BY <1>1, <1>2, ProceedAfterRevealGood DEF Handoff
  <1>3. CASE loop.at # "idle"
    <2>1. /\ rerun' = (rerun \/ key # Key') /\ timers' = t
          /\ loop' = loop /\ contender' = contender
      BY <1>3 DEF Handoff
    <2>2. key # Key'
      <3>1. /\ phaseVersion \in Nat /\ turnVersion \in Nat
            /\ phaseVersion' \in Nat /\ turnVersion' \in Nat
        BY DEF TypeOK
      <3>2. phaseVersion' > phaseVersion \/ turnVersion' > turnVersion
        BY VersionsGrow
      <3> QED
        BY <3>1, <3>2 DEF KeyKnown, Key
    <2>3. rerun' = TRUE
      BY <2>1, <2>2
    <2>4. LoopCaptured'
      BY <2>1, CapturedStays DEF LoopGood
    <2>5. LoopTyped' /\ TimersFit'
      BY <2>1, <2>3 DEF LoopGood, LoopTyped, TimersFit, FitAfter
    <2>6. AgentIsAsked' /\ TurnHasDeadline'
      BY <1>3, <2>1, <2>3 DEF AgentIsAsked, TurnHasDeadline, Busy
    <2> QED
      BY <1>1, <2>1, <2>4, <2>5, <2>6 DEF LoopGood, GrantsOnce
  <1> QED
    BY <1>2, <1>3

\* A step that leaves the loop alone and ends or suspends the play.
LEMMA OffGood ==
  ASSUME TypeOK, TypeOK', LoopGood, Next \/ UNCHANGED tableVars, loop' = loop,
         contender' = contender,
         rerun' = rerun, timers' \in TimerRecord, TimersFit', phase' # "placing"
  PROVE  LoopGood'
  <1>1. LoopCaptured'
    BY CapturedStays DEF LoopGood
  <1>2. LoopTyped'
    BY DEF LoopGood, LoopTyped
  <1>3. AgentIsAsked' /\ TurnHasDeadline'
    BY DEF AgentIsAsked, TurnHasDeadline
  <1> QED
    BY <1>1, <1>2, <1>3 DEF LoopGood

-----------------------------------------------------------------------------
(* The handlers, timers and answers. *)

Kept == LoopGood' /\ KeyKnown' /\ GrantsOnce(timers, timers') /\ saves' \in Nat

LEMMA Parts ==
  ASSUME TypeOK, TypeOK', TurnsInv
  PROVE  /\ LoopGood /\ LoopTyped /\ TimersFit /\ LoopCaptured /\ AgentIsAsked /\ TurnHasDeadline
         /\ KeyKnown /\ saves \in Nat /\ timers \in TimerRecord /\ rerun \in BOOLEAN
         /\ phaseVersion \in Nat /\ turnVersion \in Nat
         /\ phaseVersion' \in Nat /\ turnVersion' \in Nat
         /\ timers.grantedTo \in Nat /\ timers.grantedTo <= turnVersion
         /\ Cleared(timers) \in TimerRecord /\ Cleared(timers).grantedTo = timers.grantedTo
         /\ GrantsOnce(timers, Cleared(timers)) /\ GrantsOnce(timers, timers)
  <1>1. /\ LoopGood /\ LoopTyped /\ TimersFit /\ LoopCaptured /\ AgentIsAsked /\ TurnHasDeadline
        /\ KeyKnown /\ saves \in Nat /\ timers \in TimerRecord /\ rerun \in BOOLEAN
    BY DEF TurnsInv, LoopGood, LoopTyped
  <1>2. /\ phaseVersion \in Nat /\ turnVersion \in Nat
        /\ phaseVersion' \in Nat /\ turnVersion' \in Nat
    BY DEF TypeOK
  <1>3. timers.grantedTo \in Nat /\ timers.grantedTo <= turnVersion
    BY <1>1 DEF TimersFit, Fit, TimerRecord
  <1>4. Cleared(timers) \in TimerRecord /\ Cleared(timers).grantedTo = timers.grantedTo
    BY <1>1, <1>2, TimerTypes, ClearedFields
  <1> QED
    BY <1>1, <1>2, <1>3, <1>4, GrantsClear DEF GrantsOnce

LEMMA StopsKept ==
  ASSUME TypeOK, TypeOK', TurnsInv, StartDiscussion \/ LeaveTable \/ ContinueToResult \/ PlayerLeave
  PROVE  Kept
  <1>1. Next /\ phase' # "placing"
    BY DEF StartDiscussion, LeaveTable, ContinueToResult, PlayerLeave, Next, EnterDiscussion,
           BackToLobby, EnterResultAfterReveal, FailByPlayerLeft, FailWith
  <1>2. timers' \in {Cleared(timers), timers} /\ UNCHANGED <<loop, contender, rerun, key, saves>>
    BY DEF StartDiscussion, LeaveTable, ContinueToResult, PlayerLeave, runVars
  <1>3. turnVersion' >= turnVersion
    BY <1>1, VersionsGrow
  <1>4. timers' \in TimerRecord /\ GrantsOnce(timers, timers')
    BY <1>2, Parts
  <1>5. TimersFit'
    <2>1. timers.grantedTo <= turnVersion'
      BY <1>3, Parts
    <2>2. Fit(Cleared(timers), phase', pendingHint', turnVersion')
      BY <1>1, <2>1, Parts, ClearedFits
    <2>3. Fit(timers, phase', pendingHint', turnVersion')
      BY <1>1, <2>1, Parts DEF TimersFit, Fit
    <2> QED
      BY <1>2, <2>2, <2>3 DEF TimersFit
  <1>6. LoopGood'
    BY <1>1, <1>2, <1>4, <1>5, Parts, OffGood
  <1>7. KeyKnown'
    BY <1>1, <1>2, Parts, KeyStays
  <1> QED
    BY <1>2, <1>4, <1>6, <1>7, Parts DEF Kept

LEMMA StartPlacementKept ==
  ASSUME TypeOK, TypeOK', TableInv', TurnsInv, StartPlacement
  PROVE  Kept
  <1> DEFINE t == TurnStarted(Cleared(timers), turnVersion')
  <1>1. BeginPlacement /\ Handoff(t) /\ saves' = saves
    BY DEF StartPlacement
  <1>2. /\ Next /\ turnVersion' = turnVersion + 1
        /\ phase' = "placing" /\ pendingHint' = NoHint
    BY <1>1 DEF Next, BeginPlacement, ResetRound
  <1>3. Fit(Cleared(timers), phase', NoHint, turnVersion')
    <2>1. timers.grantedTo < turnVersion'
      BY <1>2, Parts
    <2> QED
      BY <2>1, Parts, ClearedFits
  <1>4. t \in TimerRecord
    BY Parts, TimerTypes
  <1>5. FitAfter(t) /\ GrantsOnce(Cleared(timers), t)
    BY <1>2, <1>3, Parts, TurnStartedFits DEF FitAfter
  <1>6. LoopGood' /\ KeyKnown' /\ GrantsOnce(t, timers')
    <2> HIDE DEF t
    <2> QED
      BY <1>1, <1>2, <1>4, <1>5, Parts, HandoffGood
  <1>7. timers' \in TimerRecord
    BY <1>6 DEF LoopGood, LoopTyped
  <1>8. GrantsOnce(timers, t)
    BY <1>5, Parts DEF GrantsOnce, Cleared, TimerRecord
  <1>9. GrantsOnce(timers, timers')
    <2> HIDE DEF t
    <2> QED
      BY <1>4, <1>6, <1>7, <1>8, Parts, GrantsTransitive
  <1> QED
    BY <1>1, <1>6, <1>9, Parts DEF Kept

LEMMA ReconnectKept ==
  ASSUME TypeOK, TypeOK', TableInv, TurnsInv, Reconnect
  PROVE  Kept
  <1>1. /\ phase = "placing"
        /\ timers' = IF pendingHint # NoHint THEN HintStarted(timers, turnVersion)
                     ELSE TurnStarted(timers, turnVersion)
        /\ UNCHANGED <<tableVars, loop, contender, rerun, key, saves>>
    BY DEF Reconnect
  <1>2. timers' \in TimerRecord
    BY <1>1, Parts, TimerTypes
  <1>3. TimersFit' /\ GrantsOnce(timers, timers')
          /\ (pendingHint = NoHint => timers'.turn = turnVersion)
    <2>1. CASE pendingHint # NoHint
      <3>1. /\ timers'.turn = timers.turn /\ timers'.hint = turnVersion /\ timers'.shown = "hint"
            /\ timers'.grantedTo = timers.grantedTo /\ timers'.grants = timers.grants
        BY <1>1, <2>1, Parts, HintStartedFields
      <3>2. Fit(timers', phase, pendingHint, turnVersion)
        BY <2>1, <3>1, Parts DEF TimersFit, Fit
      <3> QED
        BY <1>1, <2>1, <3>1, <3>2 DEF TimersFit, GrantsOnce, tableVars, roundVars
    <2>2. CASE pendingHint = NoHint
      <3>1. Fit(timers, phase, NoHint, turnVersion)
        BY <2>2, Parts DEF TimersFit
      <3>2. timers' = TurnStarted(timers, turnVersion)
        BY <1>1, <2>2
      <3>3. /\ Fit(timers', phase, NoHint, turnVersion)
            /\ GrantsOnce(timers, timers') /\ timers'.turn = turnVersion
        BY <1>1, <3>1, <3>2, Parts, TurnStartedFits
      <3> QED
        BY <1>1, <2>2, <3>3 DEF TimersFit, tableVars, roundVars
    <2> QED
      BY <2>1, <2>2
  <1>4. LoopCaptured' /\ LoopTyped' /\ AgentIsAsked' /\ KeyKnown'
    BY <1>1, <1>2, Parts DEF LoopCaptured, LoopTyped, AgentIsAsked, KeyKnown, VersionsHold,
                             Seen, tableVars, roundVars
  <1>5. TurnHasDeadline'
    <2>1. pendingHint # NoHint => ~PlayerDue
      BY <1>1, WindowOrTurn DEF PlayerDue, Players
    <2> QED
      BY <1>1, <1>3, <2>1 DEF TurnHasDeadline, PlayerDue, tableVars, roundVars
  <1> QED
    BY <1>1, <1>2, <1>3, <1>4, <1>5, Parts DEF Kept, LoopGood

LEMMA WindowOpensKept ==
  ASSUME TypeOK, TypeOK', TableInv', TurnsInv,
         NEW s \in Seats, NEW c \in Card, NEW g \in Segments, CardPlaceWithHint(s, c, g)
  PROVE  Kept
  <1>1. /\ s \in Players /\ PlaceWithHint(s, c, g, FALSE, FALSE)
        /\ timers' = HintStarted(Cleared(timers), turnVersion')
        /\ UNCHANGED <<loop, contender, rerun, key, saves>>
    BY DEF CardPlaceWithHint
  <1>2. Next
    BY <1>1 DEF Next
  <1>3. /\ turnVersion' = turnVersion + 1 /\ turn' = Nobody
        /\ pendingHint' = [seat |-> s, card |-> c]
    BY <1>1 DEF PlaceWithHint
  <1>4. pendingHint' # NoHint /\ pendingHint'.seat = s
    BY <1>3, NoHintAssumption DEF Hint
  <1>5. /\ timers'.turn = 0 /\ timers'.hint = turnVersion' /\ timers'.shown = "hint"
        /\ timers'.grantedTo = timers.grantedTo /\ timers'.grants = timers.grants
        /\ timers' \in TimerRecord
    <2>1. PICK t \in TimerRecord : t = Cleared(timers)
      BY Parts
    <2>2. timers' = HintStarted(t, turnVersion')
      BY <1>1, <2>1
    <2>3. t.turn = 0 /\ t.grantedTo = timers.grantedTo /\ t.grants = timers.grants
      BY <2>1, Parts, ClearedFields
    <2> QED
      BY <2>1, <2>2, <2>3, Parts, HintStartedFields, TimerTypes
  <1>6. TimersFit' /\ GrantsOnce(timers, timers')
    BY <1>3, <1>4, <1>5, Parts DEF TimersFit, Fit, GrantsOnce
  <1>7. LoopCaptured' /\ KeyKnown'
    BY <1>1, <1>2, Parts, CapturedStays, KeyStays
  <1>8. LoopTyped'
    BY <1>1, <1>5, Parts DEF LoopTyped
  <1>9. AgentIsAsked' /\ TurnHasDeadline'
    <2>1. Nobody \notin Seats /\ Nobody # Race
      BY TableAssumption
    <2>2. ~AgentDue' /\ ~PlayerDue'
      BY <1>1, <1>3, <1>4, <2>1, AgentsAssumption DEF AgentDue, PlayerDue, Players
    <2> QED
      BY <2>2 DEF AgentIsAsked, AgentDue, TurnHasDeadline
  <1> QED
    BY <1>1, <1>6, <1>7, <1>8, <1>9, Parts DEF Kept, LoopGood

\* A card without a window, and a decision that leaves the game running, are
\* handed off with the timers cleared.
LEMMA HandedOffKept ==
  ASSUME TypeOK, TypeOK', TableInv', TurnsInv, Next, turnVersion' = turnVersion + 1,
         pendingHint' = NoHint, Handoff(Cleared(timers)), saves' = saves
  PROVE  Kept
  <1>1. timers.grantedTo < turnVersion'
    BY Parts
  <1>2. FitAfter(Cleared(timers))
    BY <1>1, Parts, ClearedFits DEF FitAfter
  <1>3. LoopGood' /\ KeyKnown' /\ GrantsOnce(Cleared(timers), timers')
    BY <1>2, Parts, HandoffGood
  <1>4. GrantsOnce(timers, timers')
    BY <1>3, Parts, ClearedFields DEF GrantsOnce
  <1> QED
    BY <1>3, <1>4, Parts DEF Kept

LEMMA CardPlacedKept ==
  ASSUME TypeOK, TypeOK', TableInv', TurnsInv,
         NEW s \in Seats, NEW c \in Card, NEW g \in Segments, CardPlaceWithoutHint(s, c, g)
  PROVE  Kept
  <1>1. PICK ok \in BOOLEAN : PlaceWithoutHint(s, c, g, loop.at = "idle", ok)
    BY DEF CardPlaceWithoutHint
  <1>2. (loop.at = "idle") \in BOOLEAN
    OBVIOUS
  <1>3. Next
    BY <1>1, <1>2 DEF Next
  <1>4. turnVersion' = turnVersion + 1 /\ pendingHint' = NoHint
    BY <1>1 DEF PlaceWithoutHint, ContinueAfter, MayPlace
  <1>5. Handoff(Cleared(timers)) /\ saves' = saves
    BY DEF CardPlaceWithoutHint
  <1> QED
    BY <1>3, <1>4, <1>5, HandedOffKept

LEMMA DecidedKept ==
  ASSUME TypeOK, TypeOK', TableInv', TurnsInv, NEW decision \in {"yes", "no"},
         NEW ok \in BOOLEAN, HintDecision(decision, ok), HandOffAfterHint
  PROVE  Kept
  <1>1. Next
    BY DEF Next
  <1>2. turnVersion' = turnVersion + 1 /\ pendingHint' = NoHint
    BY DecisionFacts
  <1>3. CASE ~(phase' = "reveal" /\ failureReason' = NoReason)
    BY <1>1, <1>2, <1>3, HandedOffKept DEF HandOffAfterHint
  <1>4. CASE phase' = "reveal" /\ failureReason' = NoReason
    <2>1. /\ timers' = Cleared(timers) /\ saves' = saves + 1
          /\ UNCHANGED <<loop, contender, rerun, key>>
      BY <1>4 DEF HandOffAfterHint
    <2>2. TimersFit'
      BY <1>2, <1>4, <2>1, Parts, ClearedFits DEF TimersFit
    <2>3. LoopGood'
      BY <1>1, <1>4, <2>1, <2>2, Parts, OffGood
    <2>4. KeyKnown'
      BY <1>1, <2>1, Parts, KeyStays
    <2> QED
      BY <2>1, <2>3, <2>4, Parts DEF Kept
  <1> QED
    BY <1>3, <1>4

LEMMA HandlerSavedKept ==
  ASSUME TypeOK, TypeOK', TableInv', TurnsInv, HandlerSaved
  PROVE  Kept
  <1>1. saves' \in Nat
    BY Parts DEF HandlerSaved
  <1>2. CASE loop.at = "idle"
    <2>1. key' = Key /\ RunHandoffLoop(timers)
      BY <1>2 DEF HandlerSaved
    <2>2. LoopGood' /\ GrantsOnce(timers, timers')
      BY <2>1, Parts, RunLoopGood DEF TimersFit
    <2>3. phaseVersion' >= phaseVersion /\ turnVersion' >= turnVersion
      <3>1. Next \/ UNCHANGED tableVars
        BY <2>1, RunLoopStep
      <3> QED
        BY <3>1, VersionsGrow, Parts DEF tableVars
    <2>4. KeyKnown'
      BY <2>1, <2>3, Parts DEF KeyKnown, Key
    <2> QED
      BY <1>1, <2>2, <2>4 DEF Kept
  <1>3. CASE loop.at # "idle"
    <2>1. UNCHANGED tableVars /\ Handoff(timers)
      BY <1>3 DEF HandlerSaved
    <2>2. /\ key' = Key' /\ rerun' = (rerun \/ key # Key') /\ timers' = timers
          /\ loop' = loop /\ contender' = contender
      BY <1>3, <2>1 DEF Handoff
    <2>3. KeyKnown'
      BY <2>1, <2>2, Parts, KeyStays
    <2>4. LoopCaptured'
      BY <2>1, <2>2, Parts, CapturedStays
    <2>5. rerun' \in BOOLEAN /\ (rerun => rerun')
      BY <2>2, Parts
    <2>6. LoopTyped' /\ TimersFit' /\ GrantsOnce(timers, timers')
      BY <2>1, <2>2, <2>5, Parts DEF LoopTyped, TimersFit, tableVars, roundVars
    <2>7. AgentIsAsked' /\ TurnHasDeadline'
      BY <2>1, <2>2, <2>5, Parts
         DEF AgentIsAsked, TurnHasDeadline, PlayerDue, Busy, VersionsHold, tableVars, roundVars
    <2> QED
      BY <1>1, <2>3, <2>4, <2>6, <2>7 DEF Kept, LoopGood
  <1> QED
    BY <1>2, <1>3

LEMMA LoopSavedKept ==
  ASSUME TypeOK, TypeOK', TableInv', TurnsInv, LoopSaved
  PROVE  Kept
  <1>1. key' = key /\ saves' = saves
    BY DEF LoopSaved
  <1>2. CASE rerun /\ Len(played) >= TableCards
    <2>1. RunHandoffLoop(timers)
      BY <1>2 DEF LoopSaved
    <2>2. LoopGood' /\ GrantsOnce(timers, timers')
      BY <2>1, Parts, RunLoopGood DEF TimersFit
    <2>3. KeyKnown'
      BY <1>1, <2>1, RunLoopStep, Parts, KeyStays
    <2> QED
      BY <1>1, <2>2, <2>3, Parts DEF Kept
  <1>3. CASE ~(rerun /\ Len(played) >= TableCards)
    <2>1. UNCHANGED tableVars /\ Proceed(timers, rerun)
      BY <1>3 DEF LoopSaved
    <2>2. FitAfter(timers)
      BY <2>1, Parts DEF TimersFit, FitAfter, tableVars, roundVars
    <2>3. LoopGood' /\ GrantsOnce(timers, timers')
      BY <2>1, <2>2, Parts, ProceedGood
    <2>4. KeyKnown'
      BY <1>1, <2>1, Parts, KeyStays
    <2> QED
      BY <1>1, <2>3, <2>4, Parts DEF Kept
  <1> QED
    BY <1>2, <1>3

LEMMA TurnTimerKept ==
  ASSUME TypeOK, TypeOK', TableInv, TurnsInv, TurnTimerFires
  PROVE  Kept
  <1>1. UNCHANGED <<loop, contender, rerun, key, saves>> /\ timers.turn # 0
    BY DEF TurnTimerFires
  <1>2. CASE phase = "placing" /\ pendingHint = NoHint /\ turnVersion = timers.turn
    <2>1. FailByTimeout /\ timers' = Cleared(timers)
      BY <1>2 DEF TurnTimerFires
    <2>2. Next /\ phase' # "placing" /\ turnVersion' = turnVersion
      BY <2>1 DEF Next, FailByTimeout, FailWith
    <2>3. TimersFit'
      BY <2>1, <2>2, Parts, ClearedFits DEF TimersFit
    <2>4. LoopGood'
      BY <1>1, <2>1, <2>2, <2>3, Parts, OffGood
    <2>5. KeyKnown'
      BY <1>1, <2>2, Parts, KeyStays
    <2> QED
      BY <1>1, <2>1, <2>4, <2>5, Parts DEF Kept
  <1>3. CASE ~(phase = "placing" /\ pendingHint = NoHint /\ turnVersion = timers.turn)
    <2>1. UNCHANGED tableVars /\ timers' = [timers EXCEPT !.turn = 0]
      BY <1>3 DEF TurnTimerFires
    <2>2. /\ timers'.turn = 0 /\ timers'.hint = timers.hint /\ timers'.shown = timers.shown
          /\ timers'.activeFor = timers.activeFor
          /\ timers'.grantedTo = timers.grantedTo /\ timers'.grants = timers.grants
          /\ timers' \in TimerRecord
      BY <2>1, Parts, TimerTypes DEF TimerRecord
    <2>3. TimersFit' /\ GrantsOnce(timers, timers')
      BY <2>1, <2>2, Parts DEF TimersFit, Fit, GrantsOnce, tableVars, roundVars
    <2>4. LoopCaptured' /\ KeyKnown'
      BY <1>1, <2>1, Parts, CapturedStays, KeyStays
    <2>5. LoopTyped' /\ AgentIsAsked'
      BY <1>1, <2>1, <2>2, Parts DEF LoopTyped, AgentIsAsked, VersionsHold, tableVars, roundVars
    <2>6. TurnHasDeadline'
      <3>1. phase = "placing" /\ PlayerDue => Busy
        <4>1. phase = "placing" /\ pendingHint # NoHint => ~PlayerDue
          BY WindowOrTurn DEF PlayerDue, Players
        <4> QED
          BY <1>3, <4>1, Parts DEF TurnHasDeadline
      <3> QED
        BY <1>1, <2>1, <3>1 DEF TurnHasDeadline, PlayerDue, Busy, tableVars, roundVars
    <2> QED
      BY <1>1, <2>3, <2>4, <2>5, <2>6, Parts DEF Kept, LoopGood
  <1> QED
    BY <1>2, <1>3

LEMMA HintTimerKept ==
  ASSUME TypeOK, TypeOK', TableInv', TurnsInv, HintTimerFires
  PROVE  Kept
  <1>1. CASE phase = "placing" /\ pendingHint # NoHint /\ turnVersion = timers.hint
    <2>1. PICK ok \in BOOLEAN : HintDecision("no", ok)
      BY <1>1 DEF HintTimerFires
    <2>2. HandOffAfterHint
      BY <1>1 DEF HintTimerFires
    <2> QED
      BY <2>1, <2>2, DecidedKept
  <1>2. CASE ~(phase = "placing" /\ pendingHint # NoHint /\ turnVersion = timers.hint)
    <2>1. /\ timers' = [timers EXCEPT !.hint = 0]
          /\ UNCHANGED <<tableVars, loop, contender, rerun, key, saves>>
      BY <1>2 DEF HintTimerFires
    <2>2. /\ timers'.turn = timers.turn /\ timers'.hint = 0 /\ timers'.shown = timers.shown
          /\ timers'.activeFor = timers.activeFor
          /\ timers'.grantedTo = timers.grantedTo /\ timers'.grants = timers.grants
          /\ timers' \in TimerRecord
      BY <2>1, Parts, TimerTypes DEF TimerRecord
    <2>3. ~(phase = "placing" /\ pendingHint # NoHint /\ pendingHint.seat \in Players)
      BY <1>2, Parts DEF TimersFit, Fit
    <2>4. TimersFit' /\ GrantsOnce(timers, timers')
      BY <2>1, <2>2, <2>3, Parts DEF TimersFit, Fit, GrantsOnce, tableVars, roundVars
    <2>5. LoopCaptured' /\ KeyKnown'
      BY <2>1, Parts, CapturedStays, KeyStays
    <2>6. LoopTyped' /\ AgentIsAsked' /\ TurnHasDeadline'
      BY <2>1, <2>2, Parts
         DEF LoopTyped, AgentIsAsked, TurnHasDeadline, PlayerDue, Busy, VersionsHold,
             tableVars, roundVars
    <2> QED
      BY <2>1, <2>4, <2>5, <2>6, Parts DEF Kept, LoopGood
  <1> QED
    BY <1>1, <1>2

\* The loop goes on after a step of the table that it has made itself.
LEMMA LoopMovesKept ==
  ASSUME TypeOK, TypeOK', TableInv', TurnsInv, Next, turnVersion' = turnVersion + 1,
         pendingHint' = NoHint \/ pendingHint'.seat \in Agents,
         ProceedAfterReveal(timers, rerun), UNCHANGED <<key, saves>>
  PROVE  Kept
  <1>1. FitAfter(timers)
    BY Parts DEF TimersFit, FitAfter, Fit, Players
  <1>2. LoopGood' /\ GrantsOnce(timers, timers')
    BY <1>1, Parts, ProceedAfterRevealGood
  <1>3. KeyKnown'
    BY Parts, KeyStays
  <1> QED
    BY <1>2, <1>3, Parts DEF Kept

\* A loop whose versions are out of date, or whose race is over, returns.
LEMMA LoopReturnsKept ==
  ASSUME TypeOK, TypeOK', TableInv', TurnsInv, loop.at \in {"race", "turn", "hint"},
         phase = "placing" => ~VersionsHold,
         Return(timers), UNCHANGED <<key, saves>>
  PROVE  Kept
  <1>1. phase = "placing" /\ AgentDue => rerun
    BY Parts DEF AgentIsAsked, AgentDue
  <1>2. phase = "placing" /\ PlayerDue => timers.turn = turnVersion \/ rerun
    BY Parts DEF TurnHasDeadline, Busy
  <1>3. LoopGood' /\ GrantsOnce(timers, timers')
    BY <1>1, <1>2, Parts, ReturnGood DEF TimersFit
  <1>4. KeyKnown'
    BY ReturnStep, Parts, KeyStays
  <1> QED
    BY <1>3, <1>4, Parts DEF Kept

\* Who still races does not matter to what is kept.
LEMMA ContenderKept ==
  ASSUME TypeOK, TypeOK', TurnsInv, NEW s \in Agents, NEW to \in {"out", "delay", "thinking"},
         contender' = [contender EXCEPT ![s] = to],
         UNCHANGED <<tableVars, timers, loop, rerun, key, saves>>
  PROVE  Kept
  <1>1. LoopTyped'
    BY Parts DEF LoopTyped
  <1>2. LoopCaptured' /\ KeyKnown'
    BY Parts, CapturedStays, KeyStays
  <1>3. TimersFit' /\ AgentIsAsked' /\ TurnHasDeadline'
    BY Parts DEF TimersFit, AgentIsAsked, TurnHasDeadline, PlayerDue, Busy, VersionsHold,
                 tableVars, roundVars
  <1> QED
    BY <1>1, <1>2, <1>3, Parts DEF Kept, LoopGood

LEMMA DropOutKept ==
  ASSUME TypeOK, TypeOK', TableInv, TableInv', TurnsInv, loop.at = "race", ~RaceIsCurrent,
         NEW s \in Agents, DropOut(s)
  PROVE  Kept
  <1>1. UNCHANGED <<key, saves>>
    BY DEF DropOut
  <1>2. phase = "placing" => ~VersionsHold
    BY Parts DEF RaceIsCurrent, LoopCaptured
  <1>3. CASE \A r \in Agents \ {s} : contender[r] = "out"
    <2>1. CASE ~(phase = "placing" /\ pendingHint = NoHint)
      BY <1>1, <1>2, <1>3, <2>1, LoopReturnsKept DEF DropOut
    <2>2. CASE phase = "placing" /\ pendingHint = NoHint
      <3>1. PICK t \in TimerRecord : t = TurnStarted(timers, turnVersion)
        BY Parts, TimerTypes
      <3>2. Return(t)
        BY <1>3, <2>2, <3>1 DEF DropOut
      <3>3. Fit(timers, phase, NoHint, turnVersion)
        BY <2>2, Parts DEF TimersFit
      <3>4. Fit(t, phase, NoHint, turnVersion) /\ GrantsOnce(timers, t) /\ t.turn = turnVersion
        BY <2>2, <3>1, <3>3, Parts, TurnStartedFits
      <3>5. phase = "placing" /\ AgentDue => rerun
        BY <1>2, Parts DEF AgentIsAsked, AgentDue
      <3>6. LoopGood' /\ GrantsOnce(t, timers')
        BY <2>2, <3>1, <3>2, <3>4, <3>5, Parts, ReturnGood
      <3>7. timers' \in TimerRecord
        BY <3>6 DEF LoopGood, LoopTyped
      <3>8. GrantsOnce(timers, timers')
        BY <3>1, <3>4, <3>6, <3>7, Parts, GrantsTransitive
      <3>9. KeyKnown'
        BY <1>1, <3>2, ReturnStep, Parts, KeyStays
      <3> QED
        BY <1>1, <3>6, <3>8, <3>9, Parts DEF Kept
    <2> QED
      BY <2>1, <2>2
  <1>4. CASE ~ \A r \in Agents \ {s} : contender[r] = "out"
    <2>1. /\ contender' = [contender EXCEPT ![s] = "out"]
          /\ UNCHANGED <<tableVars, timers, loop, rerun>>
      BY <1>4 DEF DropOut
    <2> QED
      BY <1>1, <2>1, ContenderKept
  <1> QED
    BY <1>3, <1>4

LEMMA TurnsStep ==
  ASSUME TypeOK, TypeOK', TableInv, TableInv', LoopSeat, TurnsInv, Next0
  PROVE  Kept
  <1>1. CASE StartDiscussion \/ LeaveTable \/ ContinueToResult \/ PlayerLeave
    BY <1>1, StopsKept
  <1>2. CASE StartPlacement
    BY <1>2, StartPlacementKept
  <1>3. CASE Reconnect
    BY <1>3, ReconnectKept
  <1>4. ASSUME NEW s \in Seats, NEW c \in Card, NEW g \in Segments,
               CardPlaceWithHint(s, c, g) \/ CardPlaceWithoutHint(s, c, g)
        PROVE  Kept
    BY <1>4, WindowOpensKept, CardPlacedKept
  <1>5. ASSUME NEW decision \in {"yes", "no"}, HintDecide(decision) PROVE Kept
    <2>1. PICK ok \in BOOLEAN : HintDecision(decision, ok)
      BY <1>5 DEF HintDecide
    <2>2. HandOffAfterHint
      BY <1>5 DEF HintDecide
    <2> QED
      BY <2>1, <2>2, DecidedKept
  <1>6. ASSUME NEW decision \in {"yes", "no"}, HintAnswer(decision) PROVE Kept
    <2>1. CASE VersionsHold
      <3>1. PICK ok \in BOOLEAN : HintDecision(decision, ok)
        BY <1>6, <2>1 DEF HintAnswer
      <3>2. ProceedAfterReveal(timers, rerun) /\ UNCHANGED <<key, saves>>
        BY <1>6, <2>1 DEF HintAnswer
      <3>3. Next
        BY <3>1 DEF Next
      <3>4. turnVersion' = turnVersion + 1 /\ pendingHint' = NoHint
        BY <3>1, DecisionFacts
      <3> QED
        BY <3>2, <3>3, <3>4, LoopMovesKept
    <2>2. CASE ~VersionsHold
      BY <1>6, <2>2, LoopReturnsKept DEF HintAnswer
    <2> QED
      BY <2>1, <2>2
  <1>7. CASE HandlerSaved
    BY <1>7, HandlerSavedKept
  <1>8. CASE LoopSaved
    BY <1>8, LoopSavedKept
  <1>9. CASE TurnTimerFires
    BY <1>9, TurnTimerKept
  <1>10. CASE HintTimerFires
    BY <1>10, HintTimerKept
  <1>11. ASSUME NEW s \in Agents, RaceDelayEnds(s) PROVE Kept
    <2>1. CASE RaceIsCurrent
      BY <1>11, <2>1, ContenderKept DEF RaceDelayEnds
    <2>2. CASE ~RaceIsCurrent
      BY <1>11, <2>2, DropOutKept DEF RaceDelayEnds
    <2> QED
      BY <2>1, <2>2
  <1>12. ASSUME NEW s \in Agents, RaceAnswer(s) PROVE Kept
    <2>1. CASE RaceIsCurrent
      <3>1. AgentPlaces(s) /\ ProceedAfterReveal(timers, rerun) /\ UNCHANGED <<key, saves>>
        BY <1>12, <2>1 DEF RaceAnswer
      <3>2. s \in Seats
        BY AgentsAssumption
      <3> QED
        BY <3>1, <3>2, AgentPlacesStep, AgentPlacesFacts, LoopMovesKept
    <2>2. CASE ~RaceIsCurrent
      BY <1>12, <2>2, DropOutKept DEF RaceAnswer
    <2> QED
      BY <2>1, <2>2
  <1>13. CASE TurnAnswer
    <2>1. loop.at = "turn" /\ UNCHANGED <<key, saves>>
      BY <1>13 DEF TurnAnswer
    <2>2. CASE VersionsHold
      <3>1. AgentPlaces(loop.seat) /\ ProceedAfterReveal(timers, rerun)
        BY <1>13, <2>2 DEF TurnAnswer
      <3>2. loop.seat \in Agents /\ loop.seat \in Seats
        BY <2>1, AgentsAssumption DEF LoopSeat
      <3> QED
        BY <2>1, <3>1, <3>2, AgentPlacesStep, AgentPlacesFacts, LoopMovesKept
    <2>3. CASE ~VersionsHold
      BY <1>13, <2>1, <2>3, LoopReturnsKept DEF TurnAnswer
    <2> QED
      BY <2>2, <2>3
  <1> QED
    BY <1>1, <1>2, <1>3, <1>4, <1>5, <1>6, <1>7, <1>8, <1>9, <1>10, <1>11, <1>12, <1>13 DEF Next0

LEMMA TurnsTyped == TurnSpec => []TypeOK
  <1>1. TurnSpec => Spec
    BY TurnsAreTableSteps
  <1> QED
    BY <1>1, TypeCorrect, PTL

LEMMA TurnsInvAlways == TurnSpec => []TurnsInv
  <1>1. Init0 => TurnsInv
    <2> SUFFICES ASSUME Init0 PROVE TurnsInv
      OBVIOUS
    <2>1. /\ phase = "lobby" /\ phaseVersion = 0 /\ turnVersion = 0
          /\ timers = NoTimers /\ loop = Idle /\ contender = NoContenders /\ rerun = FALSE
          /\ key = <<0, 0>> /\ saves = 0
      BY DEF Init0, Init
    <2>2. loop.at = "idle" /\ loop.phaseVersion = 0 /\ loop.turnVersion = 0
      BY <2>1 DEF Idle
    <2>3. LoopTyped
      <3>1. timers \in TimerRecord
        BY <2>1 DEF TimerRecord, NoTimers
      <3>2. contender \in [Agents -> {"out", "delay", "thinking"}]
        BY <2>1 DEF NoContenders
      <3>3. loop.at \in LoopPlaces /\ loop.phaseVersion \in Nat /\ loop.turnVersion \in Nat
        BY <2>2 DEF LoopPlaces
      <3>4. rerun \in BOOLEAN
        BY <2>1
      <3> QED
        BY <3>1, <3>2, <3>3, <3>4 DEF LoopTyped
    <2>4. TimersFit
      BY <2>1 DEF TimersFit, Fit, NoTimers
    <2>5. LoopCaptured /\ AgentIsAsked /\ TurnHasDeadline /\ KeyKnown
      BY <2>1, <2>2 DEF LoopCaptured, AgentIsAsked, TurnHasDeadline, KeyKnown
    <2> QED
      BY <2>1, <2>3, <2>4, <2>5 DEF TurnsInv, LoopGood
  <1>2. /\ TypeOK /\ TypeOK' /\ TableInv /\ TableInv' /\ LoopSeat
        /\ TurnsInv /\ [Next0]_vars
        => TurnsInv'
    <2> SUFFICES ASSUME TypeOK, TypeOK', TableInv, TableInv', LoopSeat, TurnsInv, [Next0]_vars
                 PROVE  TurnsInv'
      OBVIOUS
    <2>1. CASE Next0
      BY <2>1, TurnsStep DEF Kept, TurnsInv
    <2>2. CASE UNCHANGED vars
      <3>1. /\ UNCHANGED tableVars /\ timers' = timers /\ loop' = loop /\ contender' = contender
            /\ rerun' = rerun /\ key' = key /\ saves' = saves
        BY <2>2 DEF vars, runVars
      <3>2. LoopCaptured' /\ KeyKnown'
        BY <3>1, Parts, CapturedStays, KeyStays
      <3>3. LoopTyped' /\ TimersFit' /\ AgentIsAsked' /\ TurnHasDeadline'
        BY <3>1, Parts DEF LoopTyped, TimersFit, AgentIsAsked, TurnHasDeadline, PlayerDue, Busy,
                           VersionsHold, tableVars, roundVars
      <3> QED
        BY <3>1, <3>2, <3>3, Parts DEF TurnsInv, LoopGood
    <2> QED
      BY <2>1, <2>2
  <1> QED
    BY <1>1, <1>2, TurnsTyped, TurnsSafe, LoopSeatInvariant, PTL DEF TurnSpec

-----------------------------------------------------------------------------
(* The theorems. *)

\* Who holds the turn has a card, an agent that is due is asked for this very
\* turn or the loop is about to look, and a player that is due has a deadline
\* (runHandoffLoop with its rerun flag, startTurnTimer and startHintTimer),
\* whatever the players, agents, timers and saves interleave.
THEOREM NobodyForgotten == TurnSpec => []NobodyIsForgotten
  <1>1. TypeOK /\ TableInv /\ LoopSeat /\ TurnsInv /\ TurnHolderHasCard => NobodyIsForgotten
    <2> SUFFICES ASSUME TypeOK, TableInv, LoopSeat, TurnsInv, TurnHolderHasCard
                 PROVE  NobodyIsForgotten
      OBVIOUS
    <2>1. LoopTyped /\ TimersFit /\ AgentIsAsked /\ TurnHasDeadline /\ saves \in Nat
      BY DEF TurnsInv, LoopGood
    <2>2. TurnTypeOK
      BY <2>1 DEF TurnTypeOK, LoopTyped, TimerRecord, LoopSeat
    <2>3. PlayerHasDeadline
      BY <2>1 DEF PlayerHasDeadline, TimersFit, Fit, TurnHasDeadline, PlayerDue, Busy
    <2> QED
      BY <2>1, <2>2, <2>3 DEF NobodyIsForgotten
  <1>2. TurnSpec => Spec
    BY TurnsAreTableSteps
  <1> QED
    BY <1>1, <1>2, TurnsTyped, TurnsSafe, LoopSeatInvariant, TurnsInvAlways, HoldersHaveCards, PTL

\* Before it is over an attempt has not failed.
NotFailedYet == phase \in {"discussion", "placing"} => failureReason = NoReason

LEMMA NotFailedInvariant == Spec => []NotFailedYet
  <1>1. Init => NotFailedYet
    BY DEF Init, NotFailedYet
  <1>2. NotFailedYet /\ [Next]_tableVars => NotFailedYet'
    <2> SUFFICES ASSUME NotFailedYet, [Next]_tableVars PROVE NotFailedYet'
      OBVIOUS
    <2>1. CASE EnterDiscussion \/ BeginPlacement \/ BackToLobby \/ EnterResultAfterReveal
               \/ FailByTimeout \/ FailByPlayerLeft
      BY <2>1 DEF EnterDiscussion, BeginPlacement, BackToLobby, EnterResultAfterReveal,
                  FailByTimeout, FailByPlayerLeft, FailWith, ResetRound, NotFailedYet
    <2>2. ASSUME NEW s \in Seats, NEW c \in Card, NEW g \in Segments,
                 NEW now \in BOOLEAN, NEW ok \in BOOLEAN,
                 PlaceWithHint(s, c, g, now, ok) \/ PlaceWithoutHint(s, c, g, now, ok)
          PROVE  NotFailedYet'
      BY <2>2 DEF PlaceWithHint, PlaceWithoutHint, MayPlace, AfterReveal, NotFailedYet
    <2>3. ASSUME NEW decision \in {"yes", "no"}, NEW ok \in BOOLEAN,
                 HintDecision(decision, ok) \/ LateReveal(ok)
          PROVE  NotFailedYet'
      BY <2>3 DEF HintDecision, LateReveal, AfterReveal, NotFailedYet
    <2>4. CASE UNCHANGED tableVars
      BY <2>4 DEF tableVars, roundVars, NotFailedYet
    <2>5. ASSUME NEW ok \in BOOLEAN, LateReveal(ok) PROVE NotFailedYet'
      BY <2>5 DEF LateReveal, AfterReveal, NotFailedYet
    <2> QED
      BY <2>1, <2>2, <2>3, <2>4, <2>5 DEF Next
  <1> QED
    BY <1>1, <1>2, PTL DEF Spec

\* Who fails an attempt for its time, and who plays for the agents.
NotTimedOut == failureReason' \in {failureReason, NoReason, "rule-unmet", "player-left"}

FromTheLoop == loop.at \in {"race", "turn"} /\ VersionsHold

LEMMA LooksQuietly ==
  ASSUME NEW t, RunHandoffLoop(t) \/ Return(t)
  PROVE  NotTimedOut /\ playedCount' = playedCount
  <1>1. (\E ok \in BOOLEAN : LateReveal(ok)) \/ UNCHANGED tableVars
    BY DEF RunHandoffLoop, Return
  <1> QED
    BY <1>1 DEF LateReveal, AfterReveal, NotTimedOut, tableVars, roundVars

LEMMA WhoDoesWhat ==
  ASSUME TypeOK, LoopSeat, Next0
  PROVE  /\ NotTimedOut \/ TurnTimerFires
         /\ \A r \in Agents : playedCount'[r] > playedCount[r] => FromTheLoop
  <1> DEFINE Goal == /\ NotTimedOut \/ TurnTimerFires
                     /\ \A r \in Agents : playedCount'[r] > playedCount[r] => FromTheLoop
  <1>1. playedCount \in [Seats -> Nat] /\ Agents \subseteq Seats /\ Players = Seats \ Agents
    BY AgentsAssumption DEF TypeOK, Players
  <1>2. ASSUME playedCount' = playedCount, NotTimedOut \/ TurnTimerFires PROVE Goal
    BY <1>1, <1>2
  <1>3. ASSUME playedCount' = [s \in Seats |-> 0], NotTimedOut PROVE Goal
    BY <1>1, <1>3
  <1>4. ASSUME NEW s \in Players, playedCount' = [playedCount EXCEPT ![s] = @ + 1], NotTimedOut
        PROVE  Goal
    BY <1>1, <1>4
  <1>5. ASSUME FromTheLoop, NotTimedOut PROVE Goal
    BY <1>5
  <1> SUFFICES Goal
    OBVIOUS
  <1> HIDE DEF Goal
  <1>6. CASE StartDiscussion \/ LeaveTable
    BY <1>3, <1>6 DEF StartDiscussion, LeaveTable, EnterDiscussion, BackToLobby, ResetRound,
                      NotTimedOut
  <1>7. CASE StartPlacement
    BY <1>3, <1>7 DEF StartPlacement, BeginPlacement, ResetRound, NotTimedOut
  <1>8. CASE ContinueToResult \/ PlayerLeave \/ Reconnect
    BY <1>2, <1>8 DEF ContinueToResult, PlayerLeave, Reconnect, EnterResultAfterReveal,
                      FailByPlayerLeft, FailWith, NotTimedOut, tableVars, roundVars
  <1>9. ASSUME NEW s \in Seats, NEW c \in Card, NEW g \in Segments,
               CardPlaceWithHint(s, c, g) \/ CardPlaceWithoutHint(s, c, g)
        PROVE  Goal
    <2>1. s \in Players
      BY <1>9 DEF CardPlaceWithHint, CardPlaceWithoutHint, PlaceWithoutHint, MayPlace
    <2>2. PICK now \in BOOLEAN, ok \in BOOLEAN :
            PlaceWithHint(s, c, g, now, ok) \/ PlaceWithoutHint(s, c, g, now, ok)
      <3>1. (loop.at = "idle") \in BOOLEAN
        OBVIOUS
      <3> QED
        BY <1>9, <3>1 DEF CardPlaceWithHint, CardPlaceWithoutHint
    <2> QED
      BY <1>4, <2>1, <2>2, PlayFacts DEF NotTimedOut
  <1>10. ASSUME NEW decision \in {"yes", "no"}, HintDecide(decision) PROVE Goal
    BY <1>2, <1>10, DecisionFacts DEF HintDecide, NotTimedOut
  <1>11. ASSUME NEW decision \in {"yes", "no"}, HintAnswer(decision) PROVE Goal
    <2>1. (\E ok \in BOOLEAN : HintDecision(decision, ok)) \/ Return(timers)
      BY <1>11 DEF HintAnswer
    <2> QED
      BY <1>2, <2>1, DecisionFacts, LooksQuietly DEF NotTimedOut
  <1>12. CASE HandlerSaved \/ LoopSaved
    <2>1. RunHandoffLoop(timers) \/ UNCHANGED tableVars
      BY <1>12 DEF HandlerSaved, LoopSaved
    <2> QED
      BY <1>2, <2>1, LooksQuietly DEF NotTimedOut, tableVars, roundVars
  <1>13. CASE TurnTimerFires
    BY <1>2, <1>13 DEF TurnTimerFires, FailByTimeout, FailWith, tableVars, roundVars
  <1>14. CASE HintTimerFires
    <2>1. (\E ok \in BOOLEAN : HintDecision("no", ok)) \/ UNCHANGED tableVars
      BY <1>14 DEF HintTimerFires
    <2> QED
      BY <1>2, <2>1, DecisionFacts DEF NotTimedOut, tableVars, roundVars
  <1>15. ASSUME NEW s \in Agents, DropOut(s) PROVE Goal
    <2>1. (\E t : Return(t)) \/ UNCHANGED tableVars
      BY <1>15 DEF DropOut
    <2> QED
      BY <1>2, <2>1, LooksQuietly DEF NotTimedOut, tableVars, roundVars
  <1>16. ASSUME NEW s \in Agents, RaceDelayEnds(s) PROVE Goal
    <2>1. UNCHANGED tableVars \/ DropOut(s)
      BY <1>16 DEF RaceDelayEnds
    <2> QED
      BY <1>2, <1>15, <2>1 DEF NotTimedOut, tableVars, roundVars
  <1>17. ASSUME NEW s \in Agents, RaceAnswer(s) PROVE Goal
    <2>1. CASE RaceIsCurrent
      <3>1. AgentPlaces(s) /\ FromTheLoop
        BY <1>17, <2>1 DEF RaceAnswer, RaceIsCurrent, FromTheLoop
      <3>2. NotTimedOut
        BY <1>1, <3>1, AgentPlacesFacts DEF NotTimedOut
      <3> QED
        BY <1>5, <3>1, <3>2
    <2>2. CASE ~RaceIsCurrent
      BY <1>15, <1>17, <2>2 DEF RaceAnswer
    <2> QED
      BY <2>1, <2>2
  <1>18. CASE TurnAnswer
    <2>1. CASE VersionsHold
      <3>1. AgentPlaces(loop.seat) /\ FromTheLoop
        BY <1>18, <2>1 DEF TurnAnswer, FromTheLoop
      <3>2. loop.seat \in Seats
        BY <1>1, <1>18 DEF TurnAnswer, LoopSeat
      <3>3. NotTimedOut
        BY <3>1, <3>2, AgentPlacesFacts DEF NotTimedOut
      <3> QED
        BY <1>5, <3>1, <3>3
    <2>2. CASE ~VersionsHold
      BY <1>2, <1>18, <2>2, LooksQuietly DEF TurnAnswer
    <2> QED
      BY <2>1, <2>2
  <1> QED
    BY <1>6, <1>7, <1>8, <1>9, <1>10, <1>11, <1>12, <1>13, <1>14, <1>16, <1>17, <1>18 DEF Next0

\* A timeout fails the turn whose own deadline it was and no window, and no
\* turn has its time topped up (TimeoutHitsItsTurn; startTurnTimer's captured
\* turnVersion, activeTurnTimers, and the places that start it again).
THEOREM TimeoutsHitTheirTurn == TurnSpec => TimeoutHitsItsTurn
  <1>1. ASSUME TypeOK, TypeOK', TableInv, TableInv', LoopSeat, TurnsInv, NotFailedYet, Next0
        PROVE  /\ phase = "placing" /\ failureReason' = "timeout" =>
                    pendingHint = NoHint /\ timers.grantedTo = turnVersion
                      /\ timers.turn = turnVersion
               /\ timers'.grants # timers.grants => timers.grantedTo # timers'.grantedTo
    <2>1. timers'.grants # timers.grants => timers.grantedTo # timers'.grantedTo
      <3>1. GrantsOnce(timers, timers') /\ timers' \in TimerRecord /\ timers \in TimerRecord
        BY <1>1, TurnsStep, Parts DEF Kept, LoopGood, LoopTyped
      <3>2. timers.grantedTo \in Nat /\ timers'.grantedTo \in Nat
        BY <3>1 DEF TimerRecord
      <3> QED
        BY <3>1, <3>2 DEF GrantsOnce
    <2>2. ASSUME phase = "placing", failureReason' = "timeout"
          PROVE  pendingHint = NoHint /\ timers.grantedTo = turnVersion /\ timers.turn = turnVersion
      <3>1. failureReason = NoReason /\ NoReason # "timeout"
        BY <1>1, <2>2, NoReasonAssumption DEF NotFailedYet
      <3>2. TurnTimerFires
        BY <1>1, <2>2, <3>1, WhoDoesWhat DEF NotTimedOut
      <3>3. pendingHint = NoHint /\ turnVersion = timers.turn /\ timers.turn # 0
        BY <2>2, <3>1, <3>2 DEF TurnTimerFires, tableVars
      <3>4. timers.turn = timers.grantedTo
        BY <1>1, <3>3, Parts DEF TimersFit, Fit
      <3> QED
        BY <3>3, <3>4
    <2> QED
      BY <2>1, <2>2
  <1>2. /\ TypeOK /\ TypeOK' /\ TableInv /\ TableInv' /\ LoopSeat /\ TurnsInv /\ NotFailedYet
        /\ [Next0]_vars
        => [/\ phase = "placing" /\ failureReason' = "timeout" =>
                 pendingHint = NoHint /\ timers.grantedTo = turnVersion /\ timers.turn = turnVersion
            /\ timers'.grants # timers.grants => timers.grantedTo # timers'.grantedTo]_vars
    BY <1>1
  <1>3. TurnSpec => Spec
    BY TurnsAreTableSteps
  <1> QED
    BY <1>2, <1>3, TurnsTyped, TurnsSafe, LoopSeatInvariant, TurnsInvAlways, NotFailedInvariant, PTL
       DEF TurnSpec, TimeoutHitsItsTurn

\* What an agent plays it chose for the table it is played on
\* (AgentPlaysFreshDecision; the versions that runAgentTurn and the race
\* capture before their await and compare after it).
THEOREM DecisionsAreFresh == TurnSpec => AgentPlaysFreshDecision
  <1>1. ASSUME TypeOK, TypeOK', LoopSeat, TurnsInv, Next0, NEW r \in Agents,
               playedCount'[r] > playedCount[r]
        PROVE  loop.seen = Seen
    <2>1. loop.at \in {"race", "turn"} /\ VersionsHold
      BY <1>1, WhoDoesWhat DEF FromTheLoop
    <2> QED
      BY <1>1, <2>1, Parts DEF LoopCaptured
  <1>2. TypeOK /\ TypeOK' /\ LoopSeat /\ TurnsInv /\ [Next0]_vars
        => [\A s \in Agents : playedCount'[s] > playedCount[s] =>
              loop.seen = Seen]_vars
    BY <1>1
  <1> QED
    BY <1>2, TurnsTyped, LoopSeatInvariant, TurnsInvAlways, PTL DEF TurnSpec,
            AgentPlaysFreshDecision

\* Every schedule of players, agents, timers and saves is a relay of cards
\* (the table as module Relay sees it).
THEOREM TurnsAreRelay == TurnSpec => PlaysAsRelay
  <1>1. TurnSpec => Spec
    BY TurnsAreTableSteps
  <1> QED
    BY <1>1, TableIsRelay, PTL

=============================================================================
