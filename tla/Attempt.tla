-------------------------------- MODULE Attempt --------------------------------
(***************************************************************************)
(* The life of an attempt outside of its table: a discussion that a button *)
(* or a timer closes, the strategies that the agents lock before the cards *)
(* are dealt (beginPlacementWithTimers in registerHandlers.ts,             *)
(* finalizeDiscussion in agent/runtime.ts), the result with its review and *)
(* the model's lessons, and the memory that a retry inherits               *)
(* (agent/memory/attemptMemoryStore.ts).                                   *)
(*                                                                         *)
(* Answers of models come late: they may find another phase, another       *)
(* attempt or another game.  The phases waiting and levelSelect are one    *)
(* phase here, "lobby".  Attempts are numbered as they are created and a   *)
(* run of retries is named by its first attempt; 0 is null.                *)
(***************************************************************************)
EXTENDS Naturals, Sequences, FiniteSets

CONSTANTS
  Agents,       \* the seats with kind = "agent"
  LastLevel,    \* levels are 1..LastLevel
  KeptBriefs,   \* MAX_RETRY_BRIEFS_PER_RUN
  MaxAttempts   \* bound on the attempts of a behaviour

ASSUME LevelAssumption == LastLevel \in Nat \ {0}
ASSUME BriefAssumption == KeptBriefs \in Nat \ {0}
ASSUME AttemptAssumption == MaxAttempts \in Nat

VARIABLES
  phase,        \* room.phase
  attempt,      \* room.identity.attemptId
  run,          \* room.identity.levelRunId and levelRunLevelId
  level,        \* room.currentChallenge
  version,      \* room.phaseVersion
  timer,        \* the version captured by the armed discussion timer
  shown,        \* room.agentState: strategyFinalizing and review
  owners,       \* running transition promises
  entry,        \* the room's entry of placementTransitions
  compiles,     \* strategies that models are asked for
  memory,       \* AttemptMemoryStore.attempt
  locked,       \* the lockedSeatStrategy of each seat's private memory
  briefs,       \* retryBriefsByRun
  finalized,    \* finalizedAttemptIds
  lessons,      \* requests of enrichRetryBrief
  begins,       \* transitions started so far: their promises' identities
  log           \* room.revealResult and failureReason, with the level, of every attempt

roomVars == <<phase, attempt, run, level, version, timer, shown>>
transitionVars == <<owners, entry, compiles, begins>>
memoryVars == <<memory, locked, briefs, finalized, lessons>>
vars == <<roomVars, transitionVars, memoryVars, log>>

Levels == 1..LastLevel
AttemptIds == 1..MaxAttempts

NoRun == [id |-> 0, level |-> 0]
NoMemory == [attempt |-> 0, run |-> 0, level |-> 0, inherited |-> 0]
NoEntry == [id |-> 0, attempt |-> 0]
NoStrategy == [attempt |-> 0, from |-> 0, cut |-> FALSE]
NoStrategies == [s \in Agents |-> NoStrategy]
NoBriefs == [r \in AttemptIds |-> <<>>]
Quiet == [finalizing |-> FALSE, review |-> 0]

Init ==
  /\ phase = "lobby"
  /\ attempt = 0
  /\ run = NoRun
  /\ level = 0
  /\ version = 0
  /\ timer = 0
  /\ shown = Quiet
  /\ owners = {}
  /\ entry = NoEntry
  /\ compiles = {}
  /\ begins = 0
  /\ memory = NoMemory
  /\ locked = NoStrategies
  /\ briefs = NoBriefs
  /\ finalized = {}
  /\ lessons = {}
  /\ log = <<>>

-----------------------------------------------------------------------------
(* Discussions. *)

\* cancelDiscussion: the requests under way are aborted; their promises
\* settle when they settle.
Aborted == {[c EXCEPT !.aborted = TRUE] : c \in compiles}

\* Fault: the run of another level goes on.
RunForAny(l, a) == IF run.id = 0 THEN [id |-> a, level |-> l] ELSE run

\* beginAttemptIdentity: only the same level carries the run on.
RunFor(l, a) ==
  IF run.id = 0 \/ run.level # l THEN [id |-> a, level |-> l] ELSE run

LastBrief(r) == IF briefs[r] = <<>> THEN 0 ELSE briefs[r][Len(briefs[r])].source

\* startDiscussionWithTimer: enterDiscussion, onDiscussionStarted, the timer.
StartDiscussion(l) ==
  LET a == Len(log) + 1
      r == RunFor(l, a)
  IN  /\ a <= MaxAttempts
      /\ phase' = "discussion"
      /\ attempt' = a
      /\ run' = r
      /\ level' = l
      /\ version' = version + 1
      /\ timer' = version + 1
      /\ shown' = Quiet
      /\ compiles' = Aborted
      /\ memory' = [attempt |-> a, run |-> r.id, level |-> l, inherited |-> LastBrief(r.id)]
      /\ locked' = NoStrategies
      /\ log' = Append(log, [level |-> l, outcome |-> "open"])
      /\ UNCHANGED <<owners, entry, begins, briefs, finalized, lessons>>

\* host:selectLevel and the level that is chosen when the time is up.
SelectLevel(l) == phase = "lobby" /\ StartDiscussion(l)

\* game:retry.
Retry == phase = "result" /\ StartDiscussion(level)

\* game:next, after a level that was cleared.
NextLevel ==
  /\ phase = "result"
  /\ log[attempt].outcome = "pass"
  /\ level < LastLevel
  /\ StartDiscussion(level + 1)

\* resumeTimersAfterReconnect: whoever resumes a seat re-arms the timer.
Reconnect ==
  /\ phase = "discussion"
  /\ timer' = version
  /\ UNCHANGED <<phase, attempt, run, level, version, shown, transitionVars, memoryVars, log>>

-----------------------------------------------------------------------------
(* From the discussion to the cards: one transition per attempt. *)

IsCurrent(o) == phase = "discussion" /\ attempt = o.attempt

\* Fault: any discussion will do.
FinishAny(o) ==
  /\ owners' = owners \ {o}
  /\ entry' = IF entry.id = o.id THEN NoEntry ELSE entry
  /\ shown' = [shown EXCEPT !.finalizing = FALSE]
  /\ IF phase = "discussion"
     THEN phase' = "placing" /\ version' = version + 1 /\ timer' = 0
     ELSE UNCHANGED <<phase, version, timer>>
  /\ UNCHANGED <<attempt, run, level>>

\* Fault: the timers are cleared before the attempt is checked again.
FinishClearsFirst(o) ==
  /\ owners' = owners \ {o}
  /\ entry' = IF entry.id = o.id THEN NoEntry ELSE entry
  /\ shown' = [shown EXCEPT !.finalizing = FALSE]
  /\ timer' = 0
  /\ IF IsCurrent(o)
     THEN phase' = "placing" /\ version' = version + 1
     ELSE UNCHANGED <<phase, version>>
  /\ UNCHANGED <<attempt, run, level>>

\* The rest of a transition once its strategies are settled: nothing is dealt
\* unless its attempt is still being discussed.
Finish(o) ==
  /\ owners' = owners \ {o}
  /\ entry' = IF entry.id = o.id THEN NoEntry ELSE entry
  /\ shown' = [shown EXCEPT !.finalizing = FALSE]
  /\ IF IsCurrent(o)
     THEN phase' = "placing" /\ version' = version + 1 /\ timer' = 0
     ELSE UNCHANGED <<phase, version, timer>>
  /\ UNCHANGED <<attempt, run, level>>

\* finalizeDiscussion asks for one strategy per seat, with the tokens of now.
Asked(o) ==
  {[owner |-> o.id, seat |-> s, attempt |-> attempt, run |-> run.id,
    version |-> version, aborted |-> FALSE] : s \in Agents}

\* beginPlacementWithTimers by the first trigger of the attempt.
BeginTransition ==
  LET o == [id |-> begins + 1, attempt |-> attempt]
  IN  /\ begins' = begins + 1
      /\ compiles' = Aborted \cup Asked(o)
      /\ IF Agents = {}
         THEN /\ phase' = "placing"
              /\ version' = version + 1
              /\ timer' = 0
              /\ UNCHANGED <<attempt, run, level, shown, owners, entry>>
         ELSE /\ owners' = owners \cup {o}
              /\ entry' = o
              /\ timer' = 0
              /\ shown' = [shown EXCEPT !.finalizing = TRUE]
              /\ UNCHANGED <<phase, attempt, run, level, version>>

\* Later triggers of the attempt wait for the first one's promise.
JoinTransition ==
  UNCHANGED <<phase, attempt, run, level, version, shown, transitionVars>>

\* Fault: the button does not look for a transition that runs.
HostBeginsAnew ==
  /\ phase = "discussion"
  /\ BeginTransition
  /\ UNCHANGED <<memoryVars, log>>

\* game:beginPlacement by the host.
HostBegins ==
  /\ phase = "discussion"
  /\ IF entry.attempt = attempt
     THEN timer' = timer /\ JoinTransition
     ELSE BeginTransition
  /\ UNCHANGED <<memoryVars, log>>

\* The callback of startDiscussionTimer.
DiscussionTimerFires ==
  /\ timer # 0
  /\ IF phase = "discussion" /\ timer = version /\ entry.attempt # attempt
     THEN BeginTransition
     ELSE timer' = 0 /\ JoinTransition
  /\ UNCHANGED <<memoryVars, log>>

\* The tokens that finalizeDiscussion checks before it writes a strategy.
TokensHold(c) ==
  /\ phase = "discussion"
  /\ attempt = c.attempt
  /\ run.id = c.run
  /\ version = c.version
  /\ memory.attempt = c.attempt

\* A model answered, failed, or was aborted: the seat locks what came of it,
\* or the public facts; the last seat lets the transition go on.
StrategySettles(c) ==
  LET o == CHOOSE p \in owners : p.id = c.owner
  IN  /\ compiles' = compiles \ {c}
      /\ locked' = IF TokensHold(c)
                   THEN [locked EXCEPT ![c.seat] =
                           [attempt |-> memory.attempt, from |-> c.attempt, cut |-> c.aborted]]
                   ELSE locked
      /\ IF \E d \in compiles \ {c} : d.owner = c.owner
         THEN UNCHANGED <<roomVars, owners, entry>>
         ELSE Finish(o)
      /\ UNCHANGED <<begins, memory, briefs, finalized, lessons, log>>

-----------------------------------------------------------------------------
(* Results. *)

\* The last KeptBriefs of a run's briefs, one having been appended.
Latest(q) == IF Len(q) > KeptBriefs THEN Tail(q) ELSE q

\* AttemptMemoryStore.closeLevelRun of the attempt's own run.
ForgetRun == [briefs EXCEPT ![memory.run] = <<>>]

\* onResult: once per attempt, a review, and lessons asked for after a defeat.
\* The versions of the request are those after the change of phase.
OnResult(outcome) ==
  /\ log' = [log EXCEPT ![attempt].outcome = outcome]
  /\ compiles' = Aborted
  /\ IF memory.attempt # attempt
     THEN UNCHANGED <<shown, briefs, finalized, lessons>>
     ELSE IF outcome = "pass"
     THEN /\ shown' = [shown EXCEPT !.review = attempt]
          /\ briefs' = ForgetRun
          /\ UNCHANGED <<finalized, lessons>>
     ELSE IF attempt \in finalized
     THEN UNCHANGED <<shown, briefs, finalized, lessons>>
     ELSE /\ finalized' = finalized \cup {attempt}
          /\ briefs' = [briefs EXCEPT ![memory.run] =
                          Latest(Append(@, [source |-> attempt, taught |-> FALSE]))]
          /\ shown' = [shown EXCEPT !.review = attempt]
          /\ lessons' = IF Agents = {} THEN lessons
                        ELSE lessons \cup {[attempt |-> attempt, version |-> version']}
  /\ UNCHANGED <<owners, entry, begins, memory, locked>>

\* afterRevealIfNeeded of a full table: a cleared level ends its run.
RevealAndScore(outcome) ==
  /\ phase = "placing"
  /\ phase' = "reveal"
  /\ version' = version + 1
  /\ run' = IF outcome = "pass" THEN NoRun ELSE run
  /\ timer' = 0
  /\ OnResult(outcome)
  /\ UNCHANGED <<attempt, level>>

\* handleTimerFailure while placing; player:leave also during the discussion.
FailAttempt(phases) ==
  /\ phase \in phases
  /\ phase' = "result"
  /\ version' = version + 1
  /\ timer' = 0
  /\ OnResult("fail")
  /\ UNCHANGED <<attempt, run, level>>

TurnTimeout == FailAttempt({"placing"})

PlayerLeave == FailAttempt({"discussion", "placing"})

ContinueToResult ==
  /\ phase = "reveal"
  /\ phase' = "result"
  /\ version' = version + 1
  /\ UNCHANGED <<attempt, run, level, timer, shown, transitionVars, memoryVars, log>>

\* Fault: the answer is taken whatever the room does by now.
LessonsAlwaysFit(q) == TRUE

\* The tokens of enrichRetryBrief.
LessonsFit(q) ==
  attempt = q.attempt /\ version = q.version /\ memory.attempt = q.attempt

\* The model's lessons for a retry, or nothing, arrive.
LessonsArrive(q, useful) ==
  /\ lessons' = lessons \ {q}
  /\ briefs' = IF useful /\ LessonsFit(q)
               THEN [r \in AttemptIds |->
                       [i \in DOMAIN briefs[r] |->
                          IF briefs[r][i].source = q.attempt
                          THEN [briefs[r][i] EXCEPT !.taught = TRUE]
                          ELSE briefs[r][i]]]
               ELSE briefs
  /\ UNCHANGED <<roomVars, transitionVars, memory, locked, finalized, log>>

-----------------------------------------------------------------------------
(* Leaving the game. *)

InGame == phase # "lobby"

\* host:backToLevelSelect gives the run up.
BackToLevelSelect ==
  /\ InGame
  /\ phase' = "lobby"
  /\ run' = NoRun
  /\ level' = 0
  /\ version' = version + 2
  /\ timer' = 0
  /\ compiles' = Aborted
  /\ briefs' = IF run.id = 0 THEN briefs ELSE [briefs EXCEPT ![run.id] = <<>>]
  /\ UNCHANGED <<attempt, shown, owners, entry, begins, memory, locked, finalized,
                 lessons, log>>

\* A player is removed by the admin, or is gone for good from the level
\* selection or the result: the room waits again, its identity is kept.
RemovePlayer ==
  /\ InGame
  /\ phase' = "lobby"
  /\ level' = 0
  /\ version' = version + 1
  /\ timer' = 0
  /\ compiles' = Aborted
  /\ UNCHANGED <<attempt, run, shown, owners, entry, begins, memoryVars, log>>

\* game:end, a player gone for good in play, an admin who seizes the room:
\* resetSession, and the room's identity is new.
EndSession ==
  /\ attempt # 0 \/ InGame
  /\ phase' = "lobby"
  /\ attempt' = 0
  /\ run' = NoRun
  /\ level' = 0
  /\ version' = version + 1
  /\ timer' = 0
  /\ shown' = Quiet
  /\ compiles' = Aborted
  /\ memory' = NoMemory
  /\ locked' = NoStrategies
  /\ briefs' = NoBriefs
  /\ finalized' = {}
  /\ UNCHANGED <<owners, entry, begins, lessons, log>>

\* softResetRoom when the last seat of a waiting room is freed: the agents'
\* memory is not told.
RoomEmptied ==
  /\ phase = "lobby"
  /\ attempt # 0
  /\ attempt' = 0
  /\ run' = NoRun
  /\ version' = version + 1
  /\ timer' = 0
  /\ shown' = Quiet
  /\ UNCHANGED <<phase, level, transitionVars, memoryVars, log>>

-----------------------------------------------------------------------------

Next ==
  \/ \E l \in Levels : SelectLevel(l)
  \/ Retry \/ NextLevel \/ Reconnect
  \/ HostBegins \/ DiscussionTimerFires
  \/ \E c \in compiles : StrategySettles(c)
  \/ \E outcome \in {"pass", "fail"} : RevealAndScore(outcome)
  \/ TurnTimeout \/ PlayerLeave \/ ContinueToResult
  \/ \E q \in lessons, useful \in BOOLEAN : LessonsArrive(q, useful)
  \/ BackToLevelSelect \/ RemovePlayer \/ EndSession \/ RoomEmptied

Spec == Init /\ [][Next]_vars

\* Timers fire and every request settles: each has a deadline that aborts it.
FairSpec ==
  /\ Spec
  /\ WF_vars(DiscussionTimerFires)
  /\ WF_vars(\E c \in compiles : StrategySettles(c))

-----------------------------------------------------------------------------
(* Properties. *)

Brief == [source : AttemptIds, taught : BOOLEAN]

\* Types of the variables.
TypeOK ==
  /\ phase \in {"lobby", "discussion", "placing", "reveal", "result"}
  /\ attempt \in 0..MaxAttempts
  /\ run \in [id : 0..MaxAttempts, level : 0..LastLevel]
  /\ level \in 0..LastLevel
  /\ version \in Nat /\ timer \in 0..version
  /\ shown \in [finalizing : BOOLEAN, review : 0..MaxAttempts]
  /\ owners \subseteq [id : 1..begins, attempt : AttemptIds]
  /\ entry \in owners \cup {NoEntry}
  /\ compiles \subseteq [owner : {o.id : o \in owners}, seat : Agents, attempt : AttemptIds,
                         run : AttemptIds, version : 0..version, aborted : BOOLEAN]
  /\ memory \in [attempt : 0..MaxAttempts, run : 0..MaxAttempts, level : 0..LastLevel,
                 inherited : 0..MaxAttempts]
  /\ locked \in [Agents -> [attempt : 0..MaxAttempts, from : 0..MaxAttempts, cut : BOOLEAN]]
  /\ \A r \in AttemptIds : briefs[r] \in Seq(Brief) /\ Len(briefs[r]) <= KeptBriefs
  /\ finalized \subseteq AttemptIds
  /\ lessons \subseteq [attempt : AttemptIds, version : 1..version]
  /\ begins \in Nat
  /\ log \in Seq([level : Levels, outcome : {"open", "pass", "fail"}])

\* Every agent plays the strategy it locked for this very attempt, and none
\* was cut off: triggers that meet (button, timer, timer of a reconnect)
\* never abort the strategies being settled, and an answer from an earlier
\* attempt is never locked.
OwnStrategies ==
  phase \in {"placing", "reveal"} =>
    \A s \in Agents :
      locked[s] = [attempt |-> attempt, from |-> attempt, cut |-> FALSE]

\* Cards are dealt only by the transition that an event of this attempt
\* started, and it deals once: a transition of an attempt that was given up
\* does not deal the cards of the next one while it is being discussed.
DealtOnPurpose ==
  [][phase # "placing" /\ phase' = "placing" =>
       \/ Agents = {}
       \/ \E o \in owners \ owners' : o.attempt = attempt /\ attempt' = attempt]_vars

\* A discussion ends without the host, when timers fire and requests settle:
\* its own timer stays armed or a transition of this attempt is on its way,
\* whatever older transitions, reconnects and restarts do to the timers.
DiscussionEnds == phase = "discussion" ~> phase # "discussion"

\* What a retry was given to discuss stays as it was given: lessons that come
\* late do not change the brief, which is shared by reference.
Taught(a) == \E r \in AttemptIds : \E i \in DOMAIN briefs[r] :
               briefs[r][i].source = a /\ briefs[r][i].taught

InheritedBriefIsFixed ==
  [][memory.inherited # 0 /\ memory' = memory /\ ~Taught(memory.inherited) =>
       ~Taught(memory.inherited)']_vars

\* Whatever starts an attempt (a retry, a new choice of the same level), it
\* inherits a defeat at its own level only, and nothing from before a victory
\* or another level.
BriefOfSameLevel ==
  memory.inherited # 0 =>
    /\ log[memory.inherited] = [level |-> memory.level, outcome |-> "fail"]
    /\ \A a \in memory.inherited..(memory.attempt - 1) :
         log[a].level = memory.level /\ log[a].outcome # "pass"

\* A result on the screen is reviewed, by this attempt and no other one.  The
\* room's run, which game:retry carries on, ends with the brief of the defeat
\* on the screen; a victory leaves its run no brief.
ResultIsReviewed ==
  phase \in {"reveal", "result"} =>
    /\ shown.review = attempt
    /\ log[attempt].outcome = "fail" => LastBrief(run.id) = attempt
    /\ log[attempt].outcome = "pass" => briefs[memory.run] = <<>>

\* A retry is given what was learnt from the defeat on the screen, which is
\* reviewed before the retry can begin; no attempt is given a brief of another
\* level, or from before a victory.
RetriesLearn == TypeOK /\ BriefOfSameLevel /\ ResultIsReviewed

\* What the documents say of a new choice of the same level: only game:retry
\* goes on with the run, and so with its brief.
OnlyRetriesInherit ==
  [][memory'.attempt # memory.attempt /\ memory'.inherited # 0 => Retry]_vars

=============================================================================
