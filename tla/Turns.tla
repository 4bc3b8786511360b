------------------------------- MODULE Turns -------------------------------
(***************************************************************************)
(* Who moves the cards of module Table: players over their sockets, agents *)
(* through the single-flight handoff loop (server/src/game/handoff.ts),    *)
(* and the turn and hint timers (server/src/game/timers.ts), interleaved   *)
(* as the event loop of the server interleaves them.  An action runs from  *)
(* one event (a message, a timer, an answer of an agent, a finished save)  *)
(* to the next await; microtasks do not interleave with events.            *)
(*                                                                         *)
(* The loop waits at one of four places: for the racing agents, for the    *)
(* agent whose turn it is, for an agent's hint decision, or for the save   *)
(* of a cleared level.  Everything it decided to wait for may be out of    *)
(* date when the answer comes.                                             *)
(***************************************************************************)
EXTENDS Table

CONSTANT Agents   \* the seats with kind = "agent"; the others are players

ASSUME AgentsAssumption == Agents \subseteq Seats

VARIABLES
  timers,     \* room.timers.turn/hint, room.timer and activeTurnTimers
  loop,       \* where the handoff loop waits, and the versions it captured
  contender,  \* the agents of the race the loop waits for
  rerun,      \* HandoffRunState.rerunRequested
  key,        \* HandoffRunState.requestedKey
  saves       \* handlers waiting for saveProgress before they hand off

runVars == <<timers, loop, contender, rerun, key, saves>>
vars == <<tableVars, runVars>>

Players == Seats \ Agents

-----------------------------------------------------------------------------
(* Timers.  turn and hint hold the turnVersion their callback captured, 0   *)
(* when nothing is armed.  shown is room.timer.kind; activeFor is the turn  *)
(* whose deadline is in force.  grantedTo and grants record which turn last *)
(* had a deadline computed for it, and how many were computed.              *)

NoTimers == [turn |-> 0, hint |-> 0, shown |-> "none", activeFor |-> 0,
             grantedTo |-> 0, grants |-> 0]

\* clearTurnTimers; clearAllTimers does the same to these timers.
Cleared(t) == [t EXCEPT !.turn = 0, !.hint = 0, !.shown = "none", !.activeFor = 0]

\* startTurnTimer: a turn that already runs keeps its deadline.
TurnStarted(t, version) ==
  LET kept == t.shown = "turn" /\ t.activeFor = version
  IN  [t EXCEPT !.turn = version,
                !.shown = "turn",
                !.activeFor = version,
                !.grantedTo = IF kept THEN @ ELSE version,
                !.grants = IF kept THEN @ ELSE @ + 1]

\* Fault: the countdown is shown and nothing is armed.
HintOnlyShown(t, version) == [t EXCEPT !.shown = "hint"]

\* startHintTimer: the deadline is the one pendingHint carries.
HintStarted(t, version) == [t EXCEPT !.hint = version, !.shown = "hint"]

-----------------------------------------------------------------------------
(* The handoff loop. *)

Idle == [at |-> "idle", seat |-> Nobody, phaseVersion |-> 0, turnVersion |-> 0,
         seen |-> <<0, 0, 0>>]

\* A table as the agents see it.  Within an attempt cards and markers are only
\* ever added, so that their numbers tell one table from another.
Seen == <<attempt, Len(played), Cardinality(faceUp)>>

\* Waiting with the seat whose turn it is, the versions as captured, and the
\* table that the agents were shown.
WaitingAt(place) ==
  [at |-> place, seat |-> IF place = "turn" THEN turn' ELSE Nobody,
   phaseVersion |-> phaseVersion', turnVersion |-> turnVersion',
   seen |-> Seen']

NoContenders == [s \in Agents |-> "out"]

\* The body of the while loop from the table as it is now (primed) to its
\* next await or return, with the timers left as t; again is the rerun flag.
\* A loop that returns with the flag set starts over and returns once more.
Proceed(t, again) ==
  LET open == phase' = "placing" /\ pendingHint' = NoHint
      place == CASE phase' = "placing" /\ pendingHint' # NoHint ->
                      IF pendingHint'.seat \in Agents THEN "hint" ELSE "idle"
                 [] open /\ turn' = Race -> IF Agents # {} THEN "race" ELSE "idle"
                 [] open /\ turn' \in Agents -> "turn"
                 [] OTHER -> "idle"
  IN  /\ timers' = IF open THEN TurnStarted(t, turnVersion') ELSE t
      /\ loop' = IF place = "idle" THEN Idle ELSE WaitingAt(place)
      /\ contender' = [s \in Agents |-> IF place = "race" THEN "delay" ELSE "out"]
      /\ rerun' = (again /\ place # "idle")

\* afterRevealIfNeeded inside the loop: a cleared level is saved first.
ProceedAfterReveal(t, again) ==
  IF phase = "placing" /\ phase' = "reveal"
  THEN IF failureReason' = NoReason
       THEN /\ timers' = Cleared(t)
            /\ loop' = WaitingAt("saving")
            /\ contender' = NoContenders
            /\ rerun' = again
       ELSE Proceed(Cleared(t), again)
  ELSE Proceed(t, again)

\* runHandoffLoop from its start, which is a call of afterRevealIfNeeded.
RunHandoffLoop(t) ==
  IF phase = "placing" /\ Len(played) >= TableCards
  THEN \E ok \in BOOLEAN : LateReveal(ok) /\ ProceedAfterReveal(t, FALSE)
  ELSE UNCHANGED tableVars /\ Proceed(t, FALSE)

\* The loop returns; a request that came while it ran starts it over.
Return(t) ==
  IF rerun
  THEN RunHandoffLoop(t)
  ELSE /\ loop' = Idle
       /\ contender' = NoContenders
       /\ timers' = t
       /\ UNCHANGED <<rerun, tableVars>>

Key == <<phaseVersion, turnVersion>>

\* Fault: single flight without the rerun flag.
HandoffOnce(t) ==
  IF loop.at = "idle"
  THEN key' = Key' /\ ProceedAfterReveal(t, FALSE)
  ELSE key' = Key' /\ timers' = t /\ UNCHANGED <<rerun, loop, contender>>

\* continueTurnOrHandoff from a handler, after its change of the table.
Handoff(t) ==
  IF loop.at = "idle"
  THEN key' = Key' /\ ProceedAfterReveal(t, FALSE)
  ELSE /\ key' = Key'
       /\ rerun' = (rerun \/ key # Key')
       /\ timers' = t
       /\ UNCHANGED <<loop, contender>>

Init0 ==
  /\ Init
  /\ timers = NoTimers
  /\ loop = Idle
  /\ contender = NoContenders
  /\ rerun = FALSE
  /\ key = <<0, 0>>
  /\ saves = 0

-----------------------------------------------------------------------------
(* Handlers around the attempt. *)

\* startDiscussionWithTimer: startDiscussionTimer drops every other timer.
StartDiscussion ==
  /\ EnterDiscussion
  /\ timers' = Cleared(timers)
  /\ UNCHANGED <<loop, contender, rerun, key, saves>>

\* beginPlacementWithTimers once the discussion is closed, and the handoff.
StartPlacement ==
  /\ BeginPlacement
  /\ Handoff(TurnStarted(Cleared(timers), turnVersion'))
  /\ UNCHANGED saves

LeaveTable ==
  /\ BackToLobby
  /\ timers' = Cleared(timers)
  /\ UNCHANGED <<loop, contender, rerun, key, saves>>

ContinueToResult ==
  /\ EnterResultAfterReveal
  /\ UNCHANGED runVars

PlayerLeave ==
  /\ FailByPlayerLeft
  /\ timers' = Cleared(timers)
  /\ UNCHANGED <<loop, contender, rerun, key, saves>>

\* resumeTimersAfterReconnect while placing: a player is back on a socket.
Reconnect ==
  /\ phase = "placing"
  /\ Players # {}
  /\ timers' = IF pendingHint # NoHint
               THEN HintStarted(timers, turnVersion)
               ELSE TurnStarted(timers, turnVersion)
  /\ UNCHANGED <<tableVars, loop, contender, rerun, key, saves>>

-----------------------------------------------------------------------------
(* Players. *)

\* card:place with markers left: the window gets its timer, no handoff yet.
CardPlaceWithHint(s, c, g) ==
  /\ s \in Players
  /\ PlaceWithHint(s, c, g, FALSE, FALSE)
  /\ timers' = HintStarted(Cleared(timers), turnVersion')
  /\ UNCHANGED <<loop, contender, rerun, key, saves>>

\* card:place without markers: handed off at once, and scored by the loop.
CardPlaceWithoutHint(s, c, g) ==
  /\ s \in Players
  /\ \E ok \in BOOLEAN : PlaceWithoutHint(s, c, g, loop.at = "idle", ok)
  /\ Handoff(Cleared(timers))
  /\ UNCHANGED saves

\* The rest of hint:decide and of the hint timer after applyHintDecision.
HandOffAfterHint ==
  IF phase' = "reveal" /\ failureReason' = NoReason
  THEN /\ timers' = Cleared(timers)
       /\ saves' = saves + 1
       /\ UNCHANGED <<loop, contender, rerun, key>>
  ELSE /\ Handoff(Cleared(timers))
       /\ UNCHANGED saves

HintDecide(decision) ==
  /\ pendingHint # NoHint
  /\ pendingHint.seat \in Players
  /\ \E ok \in BOOLEAN : HintDecision(decision, ok)
  /\ HandOffAfterHint

\* The save of a cleared level ends, well or badly, and the handler goes on.
HandlerSaved ==
  /\ saves > 0
  /\ saves' = saves - 1
  /\ IF loop.at = "idle"
     THEN key' = Key /\ RunHandoffLoop(timers)
     ELSE UNCHANGED tableVars /\ Handoff(timers)

-----------------------------------------------------------------------------
(* Timers. *)

\* Fault: an open window does not pause the turn timer that stays armed.
TurnTimerHitsWindow ==
  /\ timers.turn # 0
  /\ phase = "placing"
  /\ FailWith("timeout")
  /\ timers' = Cleared(timers)
  /\ UNCHANGED <<loop, contender, rerun, key, saves>>

\* The callback of startTurnTimer: handleTimerFailure if its turn still runs.
TurnTimerFires ==
  /\ timers.turn # 0
  /\ IF phase = "placing" /\ pendingHint = NoHint /\ turnVersion = timers.turn
     THEN /\ FailByTimeout
          /\ timers' = Cleared(timers)
     ELSE /\ UNCHANGED tableVars
          /\ timers' = [timers EXCEPT !.turn = 0]
  /\ UNCHANGED <<loop, contender, rerun, key, saves>>

\* The callback of startHintTimer decides "no" for whoever's window it is.
HintTimerFires ==
  /\ timers.hint # 0
  /\ IF phase = "placing" /\ pendingHint # NoHint /\ turnVersion = timers.hint
     THEN /\ \E ok \in BOOLEAN : HintDecision("no", ok)
          /\ HandOffAfterHint
     ELSE /\ timers' = [timers EXCEPT !.hint = 0]
          /\ UNCHANGED <<tableVars, loop, contender, rerun, key, saves>>

-----------------------------------------------------------------------------
(* Agents: answers come in any order and at any time. *)

\* applyAgentPlacement of a legal card, an illegal one being replaced by the
\* safe policy's, and afterRevealIfNeeded.
AgentPlaces(s) ==
  \E c \in Card, g \in Segments, ok \in BOOLEAN :
    PlaceWithHint(s, c, g, TRUE, ok) \/ PlaceWithoutHint(s, c, g, TRUE, ok)

VersionsHold ==
  phaseVersion = loop.phaseVersion /\ turnVersion = loop.turnVersion

\* Fault: any open race will do.
RaceIsOpen == phase = "placing" /\ turn = Race /\ pendingHint = NoHint

\* raceIsCurrent; the attempt cannot change without phaseVersion.
RaceIsCurrent ==
  phase = "placing" /\ VersionsHold /\ turn = Race /\ pendingHint = NoHint

\* One contender drops out; the race is lost with the last of them, and the
\* loop starts the turn timer before it returns.
DropOut(s) ==
  /\ IF \A r \in Agents \ {s} : contender[r] = "out"
     THEN Return(IF phase = "placing" /\ pendingHint = NoHint
                 THEN TurnStarted(timers, turnVersion) ELSE timers)
     ELSE /\ contender' = [contender EXCEPT ![s] = "out"]
          /\ UNCHANGED <<tableVars, timers, loop, rerun>>
  /\ UNCHANGED <<key, saves>>

RaceDelayEnds(s) ==
  /\ loop.at = "race"
  /\ contender[s] = "delay"
  /\ IF RaceIsCurrent
     THEN /\ contender' = [contender EXCEPT ![s] = "thinking"]
          /\ UNCHANGED <<tableVars, timers, loop, rerun, key, saves>>
     ELSE DropOut(s)

RaceAnswer(s) ==
  /\ loop.at = "race"
  /\ contender[s] = "thinking"
  /\ IF RaceIsCurrent
     THEN AgentPlaces(s) /\ ProceedAfterReveal(timers, rerun) /\ UNCHANGED <<key, saves>>
     ELSE DropOut(s)

\* Fault: it is enough that the seat is due (again).
TurnAnswerWhenDue ==
  /\ loop.at = "turn"
  /\ IF phase = "placing" /\ turn = loop.seat
     THEN AgentPlaces(loop.seat) /\ ProceedAfterReveal(timers, rerun)
     ELSE Return(timers)
  /\ UNCHANGED <<key, saves>>

TurnAnswer ==
  /\ loop.at = "turn"
  /\ IF VersionsHold
     THEN AgentPlaces(loop.seat) /\ ProceedAfterReveal(timers, rerun)
     ELSE Return(timers)
  /\ UNCHANGED <<key, saves>>

HintAnswer(decision) ==
  /\ loop.at = "hint"
  /\ IF VersionsHold
     THEN /\ \E ok \in BOOLEAN : HintDecision(decision, ok)
          /\ ProceedAfterReveal(timers, rerun)
     ELSE Return(timers)
  /\ UNCHANGED <<key, saves>>

\* A save may outlast the attempt: the loop goes on with whatever is played
\* by then, and a full table is left to the run that was requested.
LoopSaved ==
  /\ loop.at = "saving"
  /\ IF rerun /\ Len(played) >= TableCards
     THEN RunHandoffLoop(timers)
     ELSE UNCHANGED tableVars /\ Proceed(timers, rerun)
  /\ UNCHANGED <<key, saves>>

-----------------------------------------------------------------------------

Next0 ==
  \/ StartDiscussion \/ StartPlacement \/ LeaveTable \/ ContinueToResult
  \/ PlayerLeave \/ Reconnect
  \/ \E s \in Seats, c \in Card, g \in Segments :
       CardPlaceWithHint(s, c, g) \/ CardPlaceWithoutHint(s, c, g)
  \/ \E decision \in {"yes", "no"} : HintDecide(decision) \/ HintAnswer(decision)
  \/ HandlerSaved \/ LoopSaved
  \/ TurnTimerFires \/ HintTimerFires
  \/ \E s \in Agents : RaceDelayEnds(s) \/ RaceAnswer(s)
  \/ TurnAnswer

\* What ends a wait of the loop: a save, an answer, a delay of the race.
LoopGoesOn ==
  \/ LoopSaved \/ TurnAnswer
  \/ \E decision \in {"yes", "no"} : HintAnswer(decision)
  \/ \E s \in Agents : RaceDelayEnds(s) \/ RaceAnswer(s)

\* Timers fire, and the loop never waits for ever: saves end, the race delay is
\* a timer, and TurnCoordinator settles each decision before its deadline.
\* Nothing is assumed of the players, nor of the saves of their handlers.
Fairness == WF_vars(TurnTimerFires \/ HintTimerFires) /\ WF_vars(LoopGoesOn)

TurnSpec == Init0 /\ [][Next0]_vars
FairTurnSpec == TurnSpec /\ Fairness

-----------------------------------------------------------------------------
(* Properties. *)

LoopPlaces == {"idle", "race", "turn", "hint", "saving"}

TurnTypeOK ==
  /\ TypeOK
  /\ timers.turn \in Nat /\ timers.hint \in Nat /\ timers.activeFor \in Nat
  /\ timers.shown \in {"none", "turn", "hint"}
  /\ loop.at \in LoopPlaces
  /\ loop.at = "turn" => loop.seat \in Agents
  /\ contender \in [Agents -> {"out", "delay", "thinking"}]
  /\ rerun \in BOOLEAN
  /\ saves \in Nat

\* No wakeup is lost: when an agent is due, its decision for this very turn
\* is awaited, or the loop is still busy and will look at the table again.
AgentIsAsked ==
  LET due == \/ turn \in Agents
             \/ turn = Race /\ Agents # {}
             \/ pendingHint # NoHint /\ pendingHint.seat \in Agents
  IN  phase = "placing" /\ due =>
        \/ loop.at \in {"race", "turn", "hint"} /\ VersionsHold
        \/ loop.at # "idle" /\ (rerun \/ loop.at = "saving")

\* A player is never waited for without a deadline: a timer of this turn is
\* armed, or the loop is about to arm it.
PlayerHasDeadline ==
  phase = "placing" =>
    /\ pendingHint # NoHint /\ pendingHint.seat \in Players =>
         timers.hint = turnVersion
    /\ turn \in Players \cup {Race} =>
         timers.turn = turnVersion \/ (loop.at # "idle" /\ (rerun \/ loop.at = "saving"))

\* Nobody is waited for in vain: who holds the turn has a card, an agent that
\* is due is being asked, and a player that is due has a deadline.
NobodyIsForgotten == TurnTypeOK /\ TurnHolderHasCard /\ AgentIsAsked /\ PlayerHasDeadline

\* Only the turn whose own time ran out is failed, and never while a hint
\* window pauses the game, although timers of earlier turns stay armed; and
\* reconnecting, re-entering the loop or losing the race never tops a turn's
\* time up.
TimeoutHitsItsTurn ==
  [][/\ phase = "placing" /\ failureReason' = "timeout" =>
          pendingHint = NoHint /\ timers.grantedTo = turnVersion /\ timers.turn = turnVersion
     /\ timers'.grants # timers.grants => timers.grantedTo # timers'.grantedTo]_vars

\* An agent's card was chosen for the table it is played on: an answer that
\* comes late, for a race already won or a turn of an earlier attempt, is
\* dropped and not played when the seat is next due.  The loop compares
\* versions only; this says that they stand for attempt, cards and markers.
AgentPlaysFreshDecision ==
  [][\A s \in Agents : playedCount'[s] > playedCount[s] =>
       loop.seen = Seen]_vars

\* With timers and agents that answer, no attempt stays in play for ever.
AttemptEnds == phase = "placing" ~> phase # "placing"

=============================================================================
