------------------------------ MODULE Thinking ------------------------------
(***************************************************************************)
(* How an agent comes to a card (server/src/agent/turnCoordinator.ts and   *)
(* orchestrator.ts): the handoff loop asks, the model is called within the *)
(* budget and a deadline, the answer is replaced, guarded or degraded, the *)
(* card is held back for a while and then played, and the wish to show it  *)
(* is kept for the hint window that follows.  Meanwhile others play, the   *)
(* attempt may end and a new one begin, and answers come late.             *)
(*                                                                         *)
(* Whether a card wins is left out.  Module Turns has the handoff loop in  *)
(* detail and takes any legal card as an answer: here is how the card is   *)
(* found, and what it costs.                                               *)
(***************************************************************************)
EXTENDS Budget

CONSTANTS
  Agents,        \* seats of agents
  Players,       \* seats of people
  Deals,         \* the hands that may be dealt; an absent seat gets none
  Race, Nobody, NoCard,
  CandidateEngine,   \* options.candidateEngineEnabled
  MaxFallbacks,      \* maxConsecutiveFallbacks
  MaxDay,            \* bound: days
  MidnightPhases     \* bound: the phases in which a day may end

ASSUME ThinkingAssumption ==
  /\ Agents \cap Players = {}
  /\ {Race, Nobody} \cap (Agents \cup Players) = {}
  /\ \A deal \in Deals : deal = [s \in Agents \cup Players |-> deal[s]]
  /\ CandidateEngine \in BOOLEAN
  /\ {MaxFallbacks, MaxDay} \subseteq Nat \ {0}

Seats == Agents \cup Players
Cards == UNION {deal[s] : deal \in Deals, s \in Seats}

VARIABLES
  attempt, phase, turn, window, hand, faceUp,  \* the room
  asked,     \* per agent: decidePlacement as far as it has come
  reveal,    \* pendingReveal
  last,      \* agentState.seats[].lastDecision, with the card it was for
  misses,    \* consecutiveFallbacks
  breaker,   \* breakerAttemptId
  budget,
  calls,     \* in flight: sent, and not settled yet
  billed,    \* what the providers charged, per attempt
  clock      \* the UTC day

room == <<attempt, phase, turn, window, hand, faceUp>>
money == <<budget, calls, billed, clock>>
vars == <<room, asked, reveal, last, misses, breaker, money>>

(* A decision is one card; source "guarded" is a model's card replaced       *)
(* because it provably loses, "fallback" any degraded choice.                *)

\* attemptId, phaseVersion and turnVersion: they change with any of these.
Version == <<attempt, phase, hand, window>>

Sources == {"model", "candidate", "fallback", "guarded"}
Choice == [card : Cards, source : Sources, show : BOOLEAN]
NoChoice == [card |-> NoCard, source |-> "fallback", show |-> FALSE]
NoCall == [task |-> "turn", attempt |-> 0, day |-> 0, number |-> 0]
Idle == [at |-> "idle", seen |-> <<>>, choice |-> NoChoice, call |-> NoCall]
NoReveal == [attempt |-> 0, card |-> NoCard, show |-> FALSE]
NoLast == [attempt |-> 0, card |-> NoCard, source |-> "fallback"]
NoWindow == [seat |-> Nobody, card |-> NoCard]

Init ==
  /\ attempt = 0 /\ phase = "lobby"
  /\ turn = Nobody /\ window = NoWindow /\ hand = [s \in Seats |-> {}] /\ faceUp = {}
  /\ asked = [s \in Agents |-> Idle]
  /\ reveal = [s \in Agents |-> NoReveal]
  /\ last = [s \in Agents |-> NoLast]
  /\ misses = [s \in Agents |-> 0]
  /\ breaker = 0
  /\ budget = NewBudget /\ calls = {}
  /\ billed = [a \in Attempts |-> 0]
  /\ clock = 1

-----------------------------------------------------------------------------
(* Calls in flight.  A call whose request was cancelled or timed out stays   *)
(* in flight until its provider lets go of it, and settles then.  Calls are  *)
(* told apart by their number in their attempt.                              *)

CallOf(b, task) ==
  [task |-> task, attempt |-> attempt, day |-> clock, number |-> b.usage[attempt].calls + 1]

\* reserveCall, for a call of task that b can afford.
Sends(b, inFlight, task) ==
  /\ budget' = Reserved(b, attempt, task)
  /\ calls' = inFlight \cup {CallOf(b, task)}

\* Calls that some request waits for.
Awaited == {asked[s].call : s \in Agents}

\* The account of an ended attempt is never looked at again once its calls are
\* settled, and is dropped here; the code keeps it.
Over(a) == \A c \in calls : c.attempt # a

Closed(b) == [b EXCEPT !.usage = [a \in Attempts |-> IF Over(a) THEN Unused ELSE b.usage[a]]]

\* A call is settled; what it leaves of the budget and of the calls.
SettledWith(call, outcome) == Settled(Rotated(budget, clock), call, outcome.settled)
CallsWithout(call) == calls \ {call}
Bills(call, outcome) == billed' = [billed EXCEPT ![call.attempt] = @ + outcome.billed]

-----------------------------------------------------------------------------
(* The room around the agents. *)

\* cancelAll: requests end at once, without a result, and the wishes that
\* were kept for a window are dropped.
Cancelled ==
  /\ asked' = [s \in Agents |-> Idle]
  /\ reveal' = [s \in Agents |-> NoReveal]

\* continueAfterPlacement: somebody with cards is next, or all is played.
TurnPasses ==
  IF \A s \in Seats : hand'[s] = {}
  THEN phase' = "over" /\ turn' = Nobody
  ELSE phase' = phase /\ turn' \in {s \in Seats : hand'[s] # {}}

\* A card is put down: a window opens, or there is no marker left.
PutDown(s, c) ==
  /\ hand' = [hand EXCEPT ![s] = @ \ {c}]
  /\ \/ window' = [seat |-> s, card |-> c] /\ turn' = Nobody /\ phase' = phase
     \/ window' = NoWindow /\ TurnPasses
  /\ UNCHANGED <<attempt, faceUp>>

\* enterDiscussion and onDiscussionStarted.
StartDiscussion ==
  /\ phase \in {"lobby", "over"}
  /\ attempt + 1 \in Attempts
  /\ attempt' = attempt + 1
  /\ phase' = "discussion"
  /\ hand' = [s \in Seats |-> {}] /\ faceUp' = {}
  /\ Cancelled
  /\ budget' = Begun(Closed(budget), attempt')
  /\ billed' = [a \in Attempts |-> IF Over(a) THEN 0 ELSE billed[a]]
  /\ last' = [s \in Agents |-> NoLast]
  /\ UNCHANGED <<turn, window, misses, breaker, calls, clock>>

\* finalizeDiscussion cancels what is left of the talk, beginPlacement deals.
BeginPlacement ==
  /\ phase = "discussion"
  /\ phase' = "placing"
  /\ hand' \in Deals
  /\ turn' = Race
  /\ Cancelled
  /\ UNCHANGED <<attempt, window, faceUp, last, misses, breaker, money>>

\* Time runs out, a player leaves, the host goes back: cancelDiscussion.
EndAttempt ==
  /\ phase = "placing"
  /\ phase' = "over"
  /\ turn' = Nobody /\ window' = NoWindow
  /\ Cancelled
  /\ UNCHANGED <<attempt, hand, faceUp, last, misses, breaker, money>>

\* card:place of a player cancels the requests of a race.
CardPlace(p, c) ==
  /\ phase = "placing" /\ window = NoWindow
  /\ turn \in {Race, p}
  /\ c \in hand[p]
  /\ PutDown(p, c)
  /\ Cancelled
  /\ UNCHANGED <<last, misses, breaker, money>>

\* applyHintDecision.
WindowCloses(yes) ==
  /\ faceUp' = IF yes THEN faceUp \cup {window.card} ELSE faceUp
  /\ window' = NoWindow
  /\ hand' = hand /\ TurnPasses
  /\ UNCHANGED <<attempt, asked, last, misses, breaker, money>>

\* hint:decide of a player, or the hint timer, which says no to any window.
HintDecide(yes) ==
  /\ window # NoWindow
  /\ yes => window.seat \in Players
  /\ WindowCloses(yes)
  /\ UNCHANGED reveal

-----------------------------------------------------------------------------
(* Calls of the other tasks, and providers. *)

\* Discussion, strategy and, after the result, retry_brief.
Talk ==
  /\ phase \in {"discussion", "over"}
  /\ attempt # 0
  /\ LET b == Rotated(budget, clock)
     IN  IF Affordable(b, attempt, "talk")
         THEN Sends(b, calls, "talk")
         ELSE budget' = b /\ calls' = calls
  /\ UNCHANGED <<room, asked, reveal, last, misses, breaker, billed, clock>>

\* A call that nobody waits for ends: with an answer, or as a failure.
LateAnswer ==
  \E call \in calls \ Awaited :
    \E outcome \in Answers(call.task) \cup {Failure(call.task)} :
      /\ budget' = SettledWith(call, outcome)
      /\ calls' = CallsWithout(call)
      /\ Bills(call, outcome)
      /\ UNCHANGED <<room, asked, reveal, last, misses, breaker, clock>>

Midnight ==
  /\ clock < MaxDay /\ phase \in MidnightPhases
  /\ clock' = clock + 1
  /\ UNCHANGED <<room, asked, reveal, last, misses, breaker, budget, calls, billed>>

-----------------------------------------------------------------------------
(* The decision.  What decidePlacement makes of the model's answer and of the *)
(* candidates is any card of the hand, and a wish that only a model or a      *)
(* candidate may have: hint policies and beliefs decide over both.            *)

ChoicesFrom(s, sources, wishes) ==
  [card : hand[s], source : sources, show : wishes]

\* candidateTurnDecision with a reason, or degradedTurnDecision.
Degraded(s) == ChoicesFrom(s, {"fallback"}, {FALSE})

\* The candidate engine is confident, or does without the model.
Candidates(s) == ChoicesFrom(s, {"candidate"}, BOOLEAN)

\* A legal answer; isPlacementProvablyLosing may have its card replaced.
FromModel(s) == ChoicesFrom(s, {"model"}, BOOLEAN) \cup ChoicesFrom(s, {"guarded"}, {FALSE})

\* recordDecisionSource.
Recorded(count, choice) ==
  CASE choice.source = "fallback" -> count + 1
    [] choice.source \in {"model", "guarded"} -> 0
    [] OTHER -> count

\* The decision is taken, and held back until the seat has thought visibly.
Decides(s, choices, counts) ==
  \E choice \in choices :
    /\ asked' = [asked EXCEPT ![s] = [at |-> "pacing", seen |-> Version, choice |-> choice,
                                           call |-> NoCall]]
    /\ misses' = [counts EXCEPT ![s] = Recorded(@, choice)]

Waits(s, place, call) ==
  asked' = [asked EXCEPT ![s] = [at |-> place, seen |-> Version, choice |-> NoChoice, call |-> call]]

\* syncBreakerAttempt.
SyncedMisses == IF breaker = attempt THEN misses ELSE [s \in Agents |-> 0]

\* decidePlacement up to its first await, with or without a call.
Ask(s) ==
  /\ phase = "placing" /\ window = NoWindow /\ turn \in {s, Race}
  /\ asked[s].at = "idle" /\ hand[s] # {}
  /\ breaker' = attempt
  /\ LET b == Rotated(budget, clock)
     IN  \/ /\ SyncedMisses[s] >= MaxFallbacks
            /\ Decides(s, Degraded(s), SyncedMisses)
            /\ UNCHANGED <<budget, calls>>
         \/ /\ SyncedMisses[s] < MaxFallbacks
            /\ CandidateEngine
            /\ Decides(s, Candidates(s), SyncedMisses)
            /\ UNCHANGED <<budget, calls>>
         \/ /\ SyncedMisses[s] < MaxFallbacks
            /\ Affordable(b, attempt, "turn")
            /\ Sends(b, calls, "turn")
            /\ Waits(s, "model", CallOf(b, "turn"))
            /\ misses' = SyncedMisses
         \/ /\ SyncedMisses[s] < MaxFallbacks
            /\ ~Affordable(b, attempt, "turn")
            /\ budget' = b /\ calls' = calls
            /\ Decides(s, Degraded(s), SyncedMisses)
  /\ UNCHANGED <<room, reveal, last, billed, clock>>

\* The provider answers the call a request waits for: with a decision, or
\* with something that attemptModelTurn refuses.
ModelAnswers(s) ==
  /\ asked[s].at \in {"model", "retry"}
  /\ LET call == asked[s].call
     IN  \E outcome \in Answers(call.task) :
           /\ budget' = SettledWith(call, outcome)
           /\ calls' = CallsWithout(call)
           /\ Bills(call, outcome)
  /\ Decides(s, FromModel(s) \cup Degraded(s), misses)
  /\ UNCHANGED <<room, reveal, last, breaker, clock>>

\* The provider fails: once, the call is repeated if the budget allows it.
ModelFails(s) ==
  /\ asked[s].at \in {"model", "retry"}
  /\ LET call == asked[s].call
         outcome == Failure(call.task)
         b == SettledWith(call, outcome)
         again == asked[s].at = "model" /\ Affordable(b, attempt, "turn")
     IN  /\ Bills(call, outcome)
         /\ IF again
            THEN /\ Sends(b, CallsWithout(call), "turn")
                 /\ Waits(s, "retry", CallOf(b, "turn"))
                 /\ UNCHANGED misses
            ELSE /\ budget' = b /\ calls' = CallsWithout(call)
                 /\ Decides(s, Degraded(s), misses)
  /\ UNCHANGED <<room, reveal, last, breaker, clock>>

\* The deadline ends the wait, whatever the provider does (the abort gate).
DeadlineFires(s) ==
  /\ asked[s].at \in {"model", "retry"}
  /\ Decides(s, Degraded(s), misses)
  /\ UNCHANGED <<room, reveal, last, breaker, money>>

\* isStale: the room is not the one the decision was made for.
Stale(s) ==
  \/ phase # "placing" \/ window # NoWindow
  \/ Version # asked[s].seen
  \/ turn \notin {s, Race}

\* recordPlacement and completePlacement: the room shows how the card was
\* found, unless another card than the decided one was put down.
PlacementRecorded(s, c) ==
  LET choice == asked[s].choice
  IN  IF c = choice.card
      THEN [last EXCEPT ![s] = [attempt |-> attempt, card |-> c, source |-> choice.source]]
      ELSE last

\* The seat has thought long enough: the wish is kept, and the handoff loop
\* plays the card, or one of the safe policy's if that one is refused; then
\* the decision is not what was played (completePlacement).
PacingEnds(s) ==
  /\ asked[s].at = "pacing"
  /\ IF Stale(s)
     THEN /\ asked' = [asked EXCEPT ![s] = Idle]
          /\ UNCHANGED <<room, reveal, last>>
     ELSE \E c \in hand[s] :
            LET choice == asked[s].choice
                kept == [attempt |-> attempt, card |-> choice.card, show |-> choice.show]
            IN  /\ PutDown(s, c)
                /\ last' = PlacementRecorded(s, c)
                /\ IF turn = Race
                   THEN /\ asked' = [r \in Agents |-> Idle]
                        /\ reveal' = [r \in Agents |-> IF r = s THEN kept ELSE NoReveal]
                   ELSE /\ asked' = [asked EXCEPT ![s] = Idle]
                        /\ reveal' = [reveal EXCEPT ![s] = kept]
  /\ UNCHANGED <<misses, breaker, money>>

\* Fault: a wish is for the next window of its seat, whichever card that is.
WishedInAttempt(s) == reveal[s].attempt = attempt /\ reveal[s].show

\* decideHint: the wish counts for the card it was kept for, once.
Wished(s) ==
  reveal[s].attempt = attempt /\ reveal[s].card = window.card /\ reveal[s].show

AgentHint(s) ==
  /\ window.seat = s
  /\ WindowCloses(Wished(s))
  /\ reveal' = [reveal EXCEPT ![s] = NoReveal]

-----------------------------------------------------------------------------

Next ==
  \/ StartDiscussion \/ BeginPlacement \/ EndAttempt
  \/ \E p \in Players, c \in Cards : CardPlace(p, c)
  \/ \E yes \in BOOLEAN : HintDecide(yes)
  \/ Talk \/ LateAnswer \/ Midnight
  \/ \E s \in Agents :
       \/ Ask(s) \/ ModelAnswers(s) \/ ModelFails(s) \/ DeadlineFires(s)
       \/ PacingEnds(s) \/ AgentHint(s)

Spec == Init /\ [][Next]_vars

-----------------------------------------------------------------------------
(* Properties. *)

\* Types of the variables.
TypeOK ==
  /\ attempt \in Attempts \cup {0} /\ breaker \in Attempts \cup {0}
  /\ phase \in {"lobby", "discussion", "placing", "over"}
  /\ turn \in Seats \cup {Race, Nobody}
  /\ window \in [seat : Seats, card : Cards] \cup {NoWindow}
  /\ hand \in [Seats -> SUBSET Cards] /\ faceUp \subseteq Cards
  /\ \A s \in Agents :
       /\ asked[s].at \in {"idle", "model", "retry", "pacing"}
       /\ asked[s].choice \in Choice \cup {NoChoice}
  /\ misses \in [Agents -> Nat]
  /\ billed \in [Attempts -> Nat]
  /\ clock \in 1..MaxDay

\* A marker is spent by an agent only for the card it last decided on, in
\* this attempt, with a working model or candidate: a degraded or replaced
\* decision never costs the team one, nor does a wish of another card
\* (pendingReveal outlives windows the timer closed and replaced cards).
HintIsWanted ==
  [][window.seat \in Agents /\ ~(faceUp' \subseteq faceUp) =>
       LET made == last[window.seat]
       IN  /\ made.attempt = attempt /\ made.card = window.card
           /\ made.source \in {"model", "candidate"}]_vars

\* What providers billed for an attempt and what its calls in flight may
\* still cost never passes attemptMaxTokens, with calls that fail, are
\* cancelled or outlive their attempt ("a truly hard limit").
AttemptLimitIsHard ==
  /\ TypeOK
  /\ \A a \in Attempts :
       billed[a] + InFlight({c \in calls : c.attempt = a}) <= AttemptMaxTokens

\* Talking never uses up what was kept for the turns: the share that is left
\* can still be spent, in calls and in tokens.
TurnsKeepTheirShare ==
  \A a \in Attempts :
    LET u == budget.usage[a]
    IN  /\ u.calls + u.turnCalls <= AttemptMaxCalls
        /\ u.tokens + u.reserved + u.turnTokens <= AttemptMaxTokens

\* Concurrent calls do not pass the daily limit together.
DailyLimitIsHard ==
  InFlight({c \in calls : c.day = clock}) <= DailyMaxTokens

=============================================================================
