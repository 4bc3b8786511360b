# Verification of the Take Time server

TLA+ modules, TLC runs and TLAPS proofs for the server of *Take Time*, a
cooperative card game for two to four people and language-model agents. The
server is a single Node process that keeps **one room** in memory
(`src/server/src`); clients and agents talk to it over Socket.IO events,
timers and promises. `PROJECT.json` lists runs, mutants, findings, hazards and
theorems, and maps every definition to the lines it stands for.

## The system

One room, one event loop: a handler runs without interruption up to its first
`await`. What makes the code hard is therefore not preemption but what happens
*between* two turns of the event loop: timers that captured a version, model
answers that took seconds, password hashes that took half a second, files that
are being written, sockets that are gone.

| Component | State it keeps | Operations | Hard behaviour | What makes it correct |
|---|---|---|---|---|
| Card table (`game/actions.ts`, `deal.ts`, `reveal.ts`, `phases.ts`, `turnOrder.ts`) | hands, placements, markers, turn, open window, phase, versions | deal, place, decide a hint, reveal, fail, reset | three paths settle a card; blind cards turn up late; 12 cards whatever the seats | cards conserved, circle of turns, somebody is always due |
| Turn handoff (`game/handoff.ts`) | one active loop per room, a rerun flag, the last requested key | ask agents, race for the opening, apply an answer, hand off | late answers, lost wakeups, attempts that were given up meanwhile | answers apply to the table they were chosen for; no agent is forgotten |
| Timers (`game/timers.ts`) | one handle per kind, displayed timer, deadline of the current turn | arm, clear, fire | stale timers stay armed; reconnects re-arm | only the turn whose own time is up fails |
| Room and seats (`socket/registerHandlers.ts`, `game/seating.ts`, `room.ts`) | seats, ready, host, phase, holds | join, resume, leave, ready, agents, start, phases, kick, seize, disconnect | logins that end late, takeovers, holds that expire in another game | seat, socket, session and host agree |
| Player and account sessions (`auth/playerSessions.ts`, `accountSessions.ts`) | records with token hashes and a credential version | issue, verify, rotate, revoke | two clients rotate against each other; a login outlasts a password change | what is accepted was given for the present password |
| Accounts (`auth/accountStore.ts`) | accounts, indexes, an encrypted file and its backup | register, log in, change, disable, delete | one queue of commits, stale reads before it, writes that fail half way | indexes, file and memory agree |
| Discussion to placement (`registerHandlers.ts`, `agent/runtime.ts`) | one transition per attempt | lock strategies, begin placement | a transition outlives its attempt | one deal per attempt |
| Discussion coordinator and guard (`agent/discussionCoordinator.ts`, `discussionGuard.ts`) | round, activity, failures, excluded messages | speak, refuse, back off, close | activity during a request, answers to old messages | the latest message is answered, no message is missed |
| Facts, contract, strategies (`agent/entities.ts`, `contract/compile.ts`, `strategy*.ts`) | facts with sources, contract, locked rules | extract, compile, lock | contradictions that come later, rules nobody agreed to | what binds an agent was agreed |
| Turn coordinator and budget (`agent/turnCoordinator.ts`, `orchestrator.ts`, `budget.ts`) | decision under way, breaker, wish to show, reservations | decide within a budget, cancel, settle | answers after the deadline, calls that outlive attempt and day | limits hold, no decision outlives its card |
| Agent memory (`agent/memory`) | observations, strategy, lessons | begin, record, lock, finish | results and retries in any order | finished once, inherited at the same level only |
| Progress (`persistence/progressStore.ts`) | cleared levels, settings, a JSON file | load, save, flush | whole-object saves after an await | what was cleared stays cleared |
| Levels, solver (`levels`, `game/solver.ts`) | none | evaluate, search | pruning, memory of failed nodes | agree with the rules |
| Safe policy, belief, candidates (`agent/safePolicy.ts`, `belief`, `candidates`) | none | prune, rank, sample | hidden values and colours, order of play | a hand that can be won is not given up |
| Rate limiters, providers, client, evaluations, agent lab | - | - | - | not modelled, see below |

How they interact: handlers call the table and arm timers; timers and handlers
call `continueTurnOrHandoff`, whose loop calls agents and, once the table is
full, the score, the agents' memory and a save of the progress; chat feeds the
discussion coordinator and the facts, which become strategies when the
transition to the placement waits for them; every change of an account ends
sessions and may empty a seat; every path ends in a broadcast of the room
(`socket/emit.ts`), which projects and never changes the state.

## Modules

| Module | Models | Relation to others |
|---|---|---|
| `Relay` | what an attempt promises: an opening by anybody, then the seats in circle until the table is full, scored only then | abstract specification |
| `Table` | the card table of one attempt, and the phases around it | implements `Relay` |
| `Turns` | players, agents, the handoff loop, turn and hint timers, late saves, over the table | EXTENDS `Table`: each step is one of the table or leaves it alone |
| `Room` | seats, sockets, sessions, host, readiness, holds, phases, administration | an attempt is its phases |
| `Attempt` | locking of strategies, the single deal, results, reviews, lessons and runs of retries | placing only ends |
| `Contract` | facts, the public contract, what an agent locks | operators, EXTENDed by `Discussion` |
| `Discussion` | people and agents talk, the guard, the coordinators, closing | EXTENDS `Contract` |
| `Budget` | reservation and settlement of model calls | operators, EXTENDed by `Thinking` |
| `Thinking` | how an agent comes to a card and to its hint decision | EXTENDS `Budget` |
| `Accounts` | an atomic book of accounts | abstract specification |
| `AccountStore` | queue, hashing, file, backup, failures, crashes | EXTENDS `Accounts`; implements it on the file |
| `Identity` | tabs, account and seat sessions, changes of accounts, the admin | INSTANCE `Accounts` for the book |
| `Progress` | saves of settings and cleared levels down to the file | a level is cleared or not |
| `Conditions`, `Solver`, `Rules` | levels, the searches, and one attempt as agents and solver judge it | `Rules` EXTENDS `Solver` EXTENDS `Conditions` |
| `TurnsProofs` (also of `Table`), `RoomProofs`, `StoresProofs` (of `AccountStore` and `Progress`, the two files), `AttemptProofs`, `IdentityProofs`, `DiscussionProofs`, `ThinkingProofs`, `RulesProofs` (also of `Conditions` and `Solver`) | theorems and their proofs | EXTEND their component |
| `MC*` | instances for TLC | symmetry and sets of inputs only |

### Table

A card is `<<seat, index>>`; value and colour only matter for the score, which
is an input (`ok`) of the reveal. `played` lists the plays in order, so its
length is `totalPlacedCards` and a position is a card's `playOrder`. `faceUp`
are the cards on the table with `revealed`, `visible` those with
`visibleToOwner`. `waiting` and `levelSelect` are one phase, `lobby`. Each
action is one synchronous call sequence of a handler: `PlaceWithHint` and
`PlaceWithoutHint` are the two outcomes of `applyPlacement` (with or without a
marker left), each with the `afterRevealIfNeeded` that may follow it in the same
tick (`now`); `HintDecision` is `applyHintDecision` with its
`afterRevealIfNeeded`; `LateReveal` the call that a loop makes later.

### Turns

`loop` says where the handoff loop waits (for the race, for the agent whose turn
it is, for an agent's hint decision, for a save) and keeps the versions it
captured; `seen` records the table the agents were shown, by its numbers of cards
and of cards face up, which only grow within an attempt, and exists for a
property only. `rerun` and `key` are the fields of `HandoffRunState`. An action
runs from one event to the next `await`; the microtasks in between do not
interleave with events, which is how Node schedules them. `timers` holds the
version that each armed callback captured; `grantedTo` and `grants` record
deadlines that were computed and exist for properties only. A save that ends
after its attempt is modelled (`HandlerSaved`, `LoopSaved`).

### Room

A login is two steps, `LoginStart` and one of `LoginToOwnSeat`,
`LoginToFreeSeat`, `LoginFails`: the password is hashed in between, and the
socket may be closed by then (`Gone`). A session record is reduced to the seat
it names. `hold` stands for `holdUntil` with the timeout that looks at it;
releasing a seat leaves it, as `releaseSeat` does. A socket that holds a seat does
not log in or resume another seat: the client offers neither.

### Attempt

`BeginTransition` is `beginPlacementWithTimers` up to its await: the promise
becomes an element of `owners`, the entry of `placementTransitions` is `entry`,
and `finalizeDiscussion` asks for one strategy per agent (`compiles`, each with
the tokens it captured). `StrategySettles` is what follows when one of them
answers, fails or was aborted; the last one of an owner runs the rest of the
transition (`Finish`). An aborted request may still answer late, as the
repository's own race tests let it. `OnResult` is the runtime's part of every
result; `briefs` are the `RetryBrief`s of each run by their source, `taught` once
a model's lessons were added, and `lessons` the requests for them. `log` is the
history of results: part of it is `room.revealResult`, the rest exists for the
properties. Single seats that are dropped while the room waits have no effect
here and are left out.

### Discussion and Contract

A message is its index in `chat`, with who wrote it, its sort (talk, an
injection, talk about the agents themselves, an agent's answer, refusal or
notice) and the message it is about. `loops` holds the coordinator of each
attempt, as far as it has come (`initial`, `quiet`, `asking`, `cooldown`,
`asleep`, `ended`): a coordinator of an attempt that was given up returns only
when its delay or its request ends. `cancelled` is the flag that `cancel()` sets
and `isActive` tests; whatever ends a discussion (`Close`, a cancellation, the next
start) has to set it. `ChatSend` is the handler with guard and
`recordPublicChat`; an answer brings what the model extracted (`Understood`),
which may make facts contradict each other. `Close` compiles the contract and
freezes `minutes`, what the models are shown; `Lock` is one seat's strategy, by
a model or by the fallback, from the facts of that later moment. `heard` exists
for a property only. Which text is an injection is an input: the patterns of the
guard are abstracted to the sort of a text.

### Thinking and Budget

`asked` is where `decidePlacement` of a seat waits: for the model, for its retry,
for the pacing before the card. Its `seen` is the version it captured
(`attemptId`, `phaseVersion`, `turnVersion`, here what they depend on). `reveal`
is `pendingReveal`, `last` the decision a seat last made, `misses` and `breaker`
the circuit breaker. A call in flight is an element of `calls`, told apart by its
number in its attempt. Its request waits for it or was cancelled or timed out;
it settles whenever its provider lets go of it (`LateAnswer`), also after the
attempt or the day it was reserved in. `billed` is what providers charged, a
history value. `Midnight` is bounded to the phases in
`MidnightPhases`: in the run `thinking` to the lobby, where nothing is in flight,
in `thinking_midnight` to a discussion, for the reason given under Findings.

### Accounts, AccountStore and Identity

`Accounts` has one action per successful change; passwords and addresses are
model values, hashing and encryption fit or do not. In `AccountStore` a change
is a call that hashes, queues, runs and commits; a commit replaces the backup,
then the file, then memory, and may fail or be cut off before each of them.
`Promised` instantiates `Accounts` with the *file* in place of the book: a
change happens at the rename. A process may start with another key.

`Identity` takes the book as its store and adds what hangs on it: the records of
`AccountSessionStore` and `PlayerSessionStore` by the client that holds the
token, the token a tab keeps in its `sessionStorage`, the socket of a seat. The
token of a seat may be copied to another tab (`CopySession`: a duplicated tab), which
then takes the seat over when it connects (`ConnectToSeat`) or on its open
socket (`PlayerJoin`, the session branch of `player:join`); `TakeOverSeat` is
the function of that name. An account token stays with the client it was given
to. `void` is an observation: the clients that keep a seat token which was
revoked, by `issue`, `revoke` or a change of credentials. A
store call is started by a handler, worked on in the order of the queue, and
answered to a socket that may be closed by then. The audit file is reduced to
its last entry, as long as it is pending. The rate limiters let everything
through, so that the properties do not rest on them.

### Progress

A save is a record that goes through `opening`, `writing` and `renaming` before
its handler resumes. `path`, `target` and `data` are the file system: names of
temporary files, the inode of `progress.json`, and what each inode holds
(external behaviour: opening truncates, renaming replaces, a shorter text over a
longer one leaves a tail). Two saves of one millisecond share a name. `ServerRestart`
stands for a crash at any point and for the exit after `Shutdown`. What a power
failure does to unsynced pages is not modelled.

### Conditions, Solver and Rules

A condition is a record with the fields of the level files. `CardsHold` and
`Holds` are `evaluateOne`; `Loaded` adds the permanent rules, the limit on the sum
of every segment among them unless `centerCap` is `"inf"`, as in levels 1 to 3. The two
searches over single cards remember the whole state of a failed node, so they are
written as the existence of a path that survives the pruning. The search over
subsets remembers less (see Findings): it is a recursive function of the call,
with the masks the call has still to try, by sum and number, and the memory it
was given; its value is whether a placement was found and the memory left.
`Rules` deals until the solver accepts, places in turn, and defines what the
safe policy prunes and picks, what derived state calls impossible, what a seat
believes of hidden cards and which worlds it may sample, all from what that seat
may see. The reference (`Completes`) tries every placement and every order of
play. What a seat plays without a model may be proven to lose only when the hand
is lost *with this seat next* (`LostFor`): before anything is played another seat
may open instead, and win where this one cannot.

## Runs

Model values stand for the constants that the code compares only for equality.

| Run | Instance | Shows |
|---|---|---|
| `turns` | a player and two agents at three seats, 2 cards each, 1 marker, 2 attempts, with fairness | cards, turns, markers and the inductive invariant; the race for the first card; stale answers, timers and requests across a retry; no wakeup is lost; an attempt ends; the refinement of `Relay` with the direction of the circle |
| `room` | 2 seats, 2 accounts on 2 sockets, an admin socket and an agent, hold timeouts fair, no symmetry | seats, sessions, sockets, readiness and host agree; a lost seat is resumed or freed |
| `attempt` | 2 agents, 2 levels, 2 attempts, 1 brief kept, with fairness | one deal per attempt, strategies of this attempt, what an attempt inherits; a discussion ends |
| `progress` | 2 levels, 2 settings with 2 values, 3 saves, of which two may overlap | crashes, shutdowns and disk failures at every step of a save, before, between and after saves that overlap |
| `accounts` | 2 accounts, addresses, nicknames, passwords, a right and a wrong key, 2 callers, 5 calls, equal values exchanged by symmetry | every interleaving of two calls with failures and crashes is an atomic book |
| `identity` | 1 account with a seat, 2 tabs that may copy the session of the seat, 2 passwords, an admin, versions up to 3, at most 2 store calls under way and fewer the more the account has changed | no session survives what should end it, also when the account is disabled and enabled again; the audit names a change before it happens |
| `thinking` | an agent and a player with 2 cards each, or two agents and a player with 1 each; 3 calls and 4 tokens per attempt, 2 and 2 of them kept for turns; 4 calls and 5 tokens per day; candidate engine on | budget, deadline, pacing, breaker and hint wish across attempts |
| `discussion` | a person and two agents, 2 attempts, 2 messages of the person in each, with fairness | the talk, the guard, contradictions and the locked strategies; nothing goes unheard |
| `rules` | 2 seats of 2 cards, 3 segments, values 1 to 3 in two colours, all deals of two packs up to an exchange of the seats, 8 levels with conditions of every type, with and without a limit on the segments, 1 marker, 2 shuffles | solver, pruning, belief and completion search against the reference |
| `attempt_rejoin` | the instance of `attempt` | finding |
| `rules_memo` | 2 seats of 3 cards, 5 segments, a closest-to-value level | finding |
| `thinking_midnight` | a small day, candidate engine off, midnight during a discussion | finding |

Why the bounds are enough:

* *Attempts.* Two attempts are what it takes for an answer, timer, save or call
  of one attempt to meet another one. Versions only grow, so that a third
  attempt meets nothing new.
* *Cards.* With two cards each the circle of turns goes round more than once, and
  every path that settles a card is taken, with and without a marker left. Only
  two seats have blind cards (`dealRules`), so that none is dealt in `turns`:
  that they turn up in time (`BlindUntilSettled`) rests on the theorem, for any
  number of seats and cards. In `rules`, hands of two are blind until
  `RevealAfter`, and all segments but one get neighbours on both sides or on one.
* *Seats and sockets.* Two accounts on two sockets give a takeover, a late login
  and a bystander; three seats give the circle a direction. Two agents make a
  transition that waits for more than one strategy and a discussion in which
  the second speaks after the first failed. Two levels tell a retry from a new
  level.
* *Saves and calls.* Three saves are a setting, a victory and one that fails or
  is cut off, and with two of them at a time each may meet another one at any
  step and be followed by one that runs alone. Five calls register two accounts and
  leave three changes to meet each other, a crash and a wrong key.
* *Versions.* Version 3 is an account that was disabled and enabled again, or
  whose password was changed twice. A client's call to the store begins while the
  calls under way and the version are below 3 together, one of the admin while
  they are 3 at most: two calls meet at the first version and an admin's
  meets another one at the second. The theorems have no such bound.
* *Tokens.* Limits are chosen so that attempt limit, share of the turns and
  daily limit are each reached by some calls and not by others.

Every property of a passing run has a mutant in `PROJECT.json`: a faulty variant
of a mapped definition (marked *Fault* in the module) under which TLC finds the
property violated, so that none of them holds by the shape of the model.

### Fairness

`FairTurnSpec` assumes that an armed timer fires, and that the loop goes on: saves
end, the race delay is a timer, and `TurnCoordinator` answers
every decision within its budget and falls back on the safe policy. Nothing is
assumed of players, nor of the saves their handlers wait for. `FairSpec` of `Room` assumes only that hold timeouts fire.
`FairSpec` of `Attempt` assumes that the armed discussion timer fires (a reconnect
re-arms it for the same deadline) and that every strategy settles: each request
has a deadline of 8 s that aborts it. `FairSpec` of `Discussion` assumes that each
coordinator goes on: its delays are timers, and a request has a deadline.

## Findings

* **A new choice of a level goes on with its run** (`attempt_rejoin`). A removed
  player sends the room back to waiting without `closeLevelRun`, and so do a
  removed account and a hold that expires (`registerHandlers.ts:1582`, `:1404`,
  `:254`). `beginAttemptIdentity` keeps `levelRunId` when the same level is chosen
  again, and its agents inherit the old brief.
  `agent-memory-system-design.md:59` and `registerHandlers.ts:1235` keep the run
  for retries only. `RetriesLearn` is about what is inherited, whichever way.
* **A deal that can be won is refused** (`rules_memo`). The search over subsets
  remembers a failed node by segment, used cards and the last sum
  (`solver.ts:251`), while closest-to-value, adjacent-diff and placement-order
  look at the earlier segments too. A split that fails only there blocks
  another one with the same used cards. `rules.md:208` shuffles again when no
  solution exists, `rules.md:54` when the deal is unsolvable. A
  port of the search to the real level 5, with 12 random cards, refuses 96 of
  3000 deals, 57 of them wrongly; on levels 3, 4, 9 and 11 none. Deals are
  biased; no hand that cannot be won is dealt (`DealtIsWinnable`).
* **Midnight opens the daily limit** (`thinking_midnight`). `rotateDayIfNeeded`
  drops the reservations of the day, and `settleCall` of a call reserved the day
  before takes its own from the new day's (`budget.ts:129`): it frees the
  reservation of another call in flight, and the next one passes
  `dailyMaxTokens` (`budget.ts:85`, `:181`). The attempt's limit is not affected.

Other behaviours seen in the models, which disagree with a doc or a comment and
have no run of their own:

* *The last card of an agent gets no hint window.* `rules.md:96` gives a window
  after every card. The loop calls `afterRevealIfNeeded` right after an agent's
  card, which scores a full table although the window has just been opened. A
  player's last card has one. `Turns`, `TurnAnswer`.
* *An empty room does not reset.* `backend-dev-plan.md:308`: the room returns to
  waiting when everybody is gone. `player:leave` does so only through a hold that
  expires; whoever leaves from the level selection or the result by choice leaves
  a room that nobody new may enter. `Room`.
* *A connected seat without a connection.* A login whose socket closed while the
  password was hashed attaches the closed socket; the disconnect event is over,
  so no hold of 60 s frees the seat (`backend-dev-plan.md:305`). `Room`, `Gone`.
* *A hold outlives its seat.* A kick keeps the seat objects and `releaseSeat`
  keeps `holdUntil`: a kicked player's timeout may end the next game
  (`architecture.md:49`). `Room`, `hold`.
* *Overlapping saves undo each other.* A save writes the whole progress its
  handler read before the await, and nothing queues saves: the one that resumes
  last takes back a setting or a cleared level that another one has already
  reported as saved (`backend-dev-plan.md:209-210`). The run `progress` has such
  saves, marked by `overlapped`. Its properties promise nothing of them and of the file
  they leave, and everything of the saves that ran alone. `Progress`, `Resume`.
* *Placing without hands.* With one seat left the host may go on; `beginPlacement`
  sets the phase before the deal throws, and no timer ends what cannot be played
  (`backend-dev-plan.md:302` asks for two seats). `Room`, variable `dealt`.
* *`strategyFinalizing` goes out early.* The end of a transition that was given up
  clears the flag that a newer transition has set (`shared/src/state.ts:175`).
  `Attempt`, `Finish`.
* *Lessons that come too late.* A model's lessons that arrive after the host went
  on to the result are dropped, because `phaseVersion` has changed.
  `Attempt`, `LessonsFit`.
* *Settings that change in a game.* `settings:update` checks the phase before its
  save only (`registerHandlers.ts:1024`). `Progress`, `Resume`.
* *Locked levels that are played.* The automatic choice of a level ignores the
  order of unlocking (`registerHandlers.ts:1054`). `Progress`, `AutoSelect`.
* *A file half written.* Two saves of one millisecond share a temporary file, and
  the first rename may publish what the second one has just truncated
  (`backend-dev-plan.md:209`). It is in the run like the overlap above. `Progress`, `Open`.
* *The current device is signed out too.* When another device of a player makes a
  request with a revoked session, `requireActiveAccount` calls `revokePlayer`
  (`registerHandlers.ts:648`), which also ends the session of the device that had
  just changed the password; the design lets it stay signed in
  (`plans/2026-07-20-email-identity-recovery-and-admin-management-design.md`,
  item 13 of its list). `Identity`, `StaleRequest`.
* *A device without a seat cannot end the seat's session.* `revokeOthers` from a
  tab without a seat ends account sessions only. `Identity`, `SessionsRevokeOthers`.
* *A disabled player sits down.* A login whose hash is in flight while the account
  is disabled or deleted still gets its seat; the next request ends it.
  `Identity`, `LoginEnds`.
* *Chat that was kept out comes back.* `runtime.ts:247` and `:266` say that refused
  messages and notices stay out of later model contexts; `recordPublicChat`
  records an agent's own ones as actions, which `buildTurnView` (`views.ts:162`)
  shows in turn prompts. The property `ModelsSeeTheTalkOnly` is about the
  discussion and the strategies, where the comment is right.
* *Two hard assignments for one seat.* `semanticKey` of `compile.ts` compares the
  exact set of seats: an assignment of one seat and another one of a set
  with this seat do not contest each other, while the comment at `compile.ts:11`
  wants one confirmed set per seat. `finalizeDiscussion` in addition keeps a hard
  assignment of the seat's own next to another one of the contract. Both happen in
  the run, so `ContractIsAgreed` claims one answer per set of seats in the
  contract and no more. `Contract`, `SemanticKey`, `LockedRules`.
* *A commitment kept by chance is reported as impossible.*
  `applyHardStrategyRules` counts a hard rule as applied only when it
  narrowed the candidates. Not modelled.
* *The order already played is ignored.* `canCompleteSampledDeal` decides a
  required order by whether some opening makes it possible, not by who opened.
  `Solver`, `OrderPossible`; `SearchIsExact` is stated for all orders therefore.
* *What a seat remembers is not used.* `sampleWorlds` draws values for the seat's
  own face-down cards that it has seen. `Rules`, `Slot`.

## Proofs

`TurnsProofs` begins with module `Table`. For any number of seats, cards, segments
and markers it proves that the table keeps its types (`TypeCorrect`), that `TableInv` is invariant
(`TableSafe`) and that the table implements `Relay` (`TableIsRelay`). `TableInv`
is inductive as a whole and none of its parts is alone: conservation of the
cards keeps the table from overfilling; that an open window is about the card
played last (`WindowOnLastCard`) carries the circle of turns through a window
and makes the marker that is spent turn up a card that was face down, so that
the count of cards face up stays the count of markers spent; and
`SomebodyIsDue` needs to know that a reveal was scored. The refinement maps a
phase to a status, the last play to `last` and the length of `played` to
`count`; each step of the table is a `Move`, a `Score`, a `Fail`, a `Clear`, a
`Start` or a stutter under `TableInv`. That whoever has the turn also has a
card to play (`HoldersHaveCards`) is an argument by counting that needs an
invariant of its own (`Rounds`): a hand has lost exactly the cards its seat put
down, and from the seat that is due onwards the numbers of cards put down never
decrease and differ by one at most. An empty hand at its turn would therefore
mean that all cards are on the table, and then there is no next turn.

Above it, `TurnsProofs` proves that every step of players, agents, timers and loop is a
step of the table or leaves it alone (lemma `TurnsAreTableSteps`, which is so by
the way the actions are written, once the loop's captured
seat is an agent's: `LoopSeatInvariant`), and carries `TableInv` and the
refinement of `Relay` over (`TurnsSafe`, `TurnsAreRelay`). `NobodyForgotten`,
`TimeoutsHitTheirTurn` and `DecisionsAreFresh` are about the versions that
`handoff.ts` and `timers.ts` compare, and follow from `TurnsInv`. Its point is that
the two versions stand for the table: no step of the table leaves both as they
are, so that a loop that holds the versions of now waits for what is due now
(`LoopCaptured`, `AgentIsAsked`); and every step that changes them asks the loop
to run again, which the single-flight loop cannot miss because the key it has
seen is never newer than the table (`KeyKnown`). `Fit` says which table a timer
was armed for, and `GrantsOnce` that a hint extends a deadline once. None of this
assumes fairness: that the loop does run is `AttemptEnds`, which TLC checks.

`RoomProofs` proves for any number of seats, accounts and sockets that the room
tells one story about who sits where (`RoomAgrees`), that lost seats are held
(`LostSeatsAreHeld`), that the host's clock is current (`HostClockIsCurrent`), and
that a running game takes nobody in and keeps its host (`NobodyNewInGame`,
`HostKeepsSeat`). `SeatsAgree` looks at sockets that are bound; to be inductive it
needs the way back as well: a seat's socket is open and bound to this very seat,
so that no socket has two seats (`SocketIsBound`), a socket whose login is under way has
none yet (`BoundIsOpen`), and a seat that is held has no socket, so that its
timeout cuts nobody off (`OthersAreBare`). Most actions
follow one of three patterns: a seat is given up (`VacatedKeeps`), a seat is taken
(`TakenKeeps`), or the room is emptied (`ResetKeeps`).

`StoresProofs` is about the two stores that write files. It proves for any number of accounts, calls and keys that the
store implements `Accounts` on its file (`StoreIsAccounts`), that memory and file
agree between two commits with unique addresses and nicknames (`StoreSafe`), and
that deleted data is gone from file and backup (`ErasureHolds`). The inductive
invariant `StoreIInv` adds what the code relies on without saying so: a call that
hashes inside the queue is its head, so that what it read is what it changes
(`Running`); a commit is one legal change of the book by the head of the queue
(`CommitIsChange`), and after its first step the backup holds either the old file
or, for a deletion, the new one. That last part is what makes the order of
backup and rename in `persist` matter. `Follows` collects what the rest of the
argument needs of a change, so that the six kinds of change are looked at once.

`AttemptProofs` proves for any number of seats, levels, attempts and runs that
cards are placed with the strategies of this very attempt
(`StrategiesAreOwn`), that they are dealt only once every strategy asked for is
in (`CardsDealtOnPurpose`), that a retry has the lessons of the defeat on the screen
and no attempt those of another level or from before a victory
(`RetriesAlwaysLearn`), and that a brief does not change once it is inherited
(`InheritedBriefsAreFixed`). The invariant `AttemptInv` says where a stale
transition can and cannot come from: attempts are numbered in order, so a
transition, a wait for a strategy or a lesson that belongs to an earlier attempt
never becomes one of the present attempt (`LastAttempt`); at most one transition
is of the present attempt, and while it is open every agent's strategy is asked
for or locked (`OneTransition`, `SeatsAsked`); a run holds attempts of one level
(`RunOfOneLevel`) and a brief comes from a defeat of it (`BriefsOfDefeats`,
`BriefOfSameLevel`).

`IdentityProofs` proves for any number of tabs, players and restarts that no old
password and no refused session opens anything (`OldPasswordsOpenNothing`,
`RefusedStaysRefused`), that a seat session which was revoked never opens the seat
again, whoever copied it and whoever sits there since
(`SeatsNeedTheirSession`), and that the status of an account is changed
after its audit entry was written (`AuditComesFirst`). The heart of `IdentityInv` is `Fits`: whatever was
given out, whether stored, in a tab or on its way, was given for a version that
exists already, and one given for the version of now was given for the password
of now. It holds because every change of a password raises the version in the
same commit, and because a login takes version and password hash from one
reading of the account and not the version from the account as it is when the
answer is sent.

Of the progress `StoresProofs` proves, however many saves overlap, that the types
hold (`ProgressTypesHold`), that a crash at any step of a save or of the flush
loses nothing (`CrashesLoseNothing`) and that nothing the room was told is taken
back (`WhatWasToldIsKept`), but for what saves that ran beside each other do to
the room and to the file. `SavesInv` tells two kinds of saves apart. One that runs
alone is the last one started; it writes to an inode of its own, which
becomes the file when it is complete (`Placed`), and holds the progress of the
room but for its own change (`Whole`). Of one beside others it says only that
it writes to inodes of such saves (`Shared`), so that it spoils no file that a
save alone has left. While no overlapped save has the file, the file is the
progress of the room until the rename.

`DiscussionProofs` proves for any number of people, agents, attempts and messages,
and for models that extract, propose and answer whatever they like, that models
see the talk and nothing that was refused (`ModelsSeeOnlyTheTalk`), that their
words answer the latest message (`AgentsAnswerTheLatest`) and appear in their own
discussion only (`AgentsSpeakInTheirOwn`), and that agents are held to what was
agreed (`ContractsAreAgreed`). Beside `DiscussionInv` stands `LiveLoops`: a
coordinator that has not returned was cancelled, or people still talk in its
attempt. It is what makes the flag that `isActive` reads enough, and it
holds only because each end of a discussion cancels. `DiscussionInv` has two halves. `Talk`: a message
that is visible was never refused, for which a refusal has to come after the
message it is about (`VisibleIsTalk`); only the coordinator of the present
discussion holds a view that counts, so that nothing is excluded under anybody's
eyes (`ShownIsVisible`: an answer that excludes messages ends the only request
that shows them); and a fact that is not marked has no rival
(`ConflictsAreMarked`), because ingesting marks both sides at once. `Settled`:
nothing is settled while people talk, a confirmed rule of the contract has a
person and an uncontradicted fact behind it (`ConfirmedByPeople`), and so has
every commitment that is locked, be it the contract's or the seat's own. Both
halves meet in `Close`, which compiles from the facts and the view of one moment;
after it the facts stay and the chat only grows.

`ThinkingProofs` proves for any costs and limits, and any number of seats, attempts
and calls in flight, that an attempt stays within its tokens whatever is
cancelled, fails, is repeated or answers late (`AttemptsAreBounded`), that the
turns keep what was set aside for them (`TurnsAreSpared`), and that a marker is
spent for a card a model or a candidate wanted to show (`MarkersAreMeant`). The
heart is `Balanced`: the `reserved` of an account is exactly what its calls in
flight reserved, and its `tokens` what was billed. Three facts about the code make
it inductive. A call settles once, for no more than it reserved, so that
`Math.max(0, ...)` of `settleCall` never cuts anything off; a request waits for a
call of its own (`EachAwaitsItsOwn`), so that neither an answer nor a late
one settles the call of another; and a turn takes out of the turns' share what it
reserves, and no other task touches it. For the day the same account is
balanced (`DayBalanced`) as long as no call is in flight when the day ends, the
hypothesis `QuietMidnights` of `DaysAreBounded`; without it `settleCall` frees on the
new day what was reserved on the old one, and the cut of `Math.max` hides it
(`thinking_midnight`). For the markers, `WishesAreMeant` follows a wish from the
decision to the window: it is kept under the card that was decided on, and is
compared with the card of the window, so that a card the handoff loop had to
replace spends none.

`RulesProofs` proves for any pack, level, number of seats, cards and segments that
a deal which the solver lets through can be won (`NoDealIsHopeless`), that the
completion search is right in both directions and the real cards are a possible
world of every seat (`TheSearchIsExact`), and that pruning, safe policy, derived
state and beliefs never give up a hand that can be won (`NoHandIsGivenUp`). The
state's part is small. `Inv` says that a level is loaded, that a dealt hand comes
from the decks, that no card lies on the table twice, and that cards shown lie
there; what was accepted when placing began stays accepted until a card is
played. The weight is in the operators:

* *Sums.* A sum over cards is a fold over a set, of which induction would say what
  is needed. `TLAPS` has no induction over an operator, so a sum is shown to be the
  cardinality of a set of dots, one column of dots for each card (`Dots`):
  inclusion of cards gives the comparison of sums, and disjointness addition.
* *Views.* What a seat sees of a table is contained in every placement that extends
  it, so that `Lower` is never above and `Upper` with the cards to come never below
  a sum that can still be reached; a refuted condition then fails in each
  completion. The deficits of different segments need different cards, so that
  their sum is a bound as well. The ranking of the safe policy is a strict order on
  the moves it keeps, which makes its `CHOOSE` a legal move.
* *Orders.* `OrderPossible` counts seat by seat whether the turns that are
  required to go to a segment find enough cards of their seat there. The seats'
  turns and cards are disjoint, so that the count suffices for a whole play: each
  required turn gets a card of its own, and the rest of a seat's cards fill its
  other turns.
* *Search.* Completeness of the search over cards needs its pruning to be monotone
  along the path (`Exceeded` stays, `Attainable` bounds what is left). The search
  over subsets is recursive; a recursive function is a `CHOOSE`, and it exists
  because each call is nearer to the end than its caller (`ToGo`, the masks left
  and the segments to come), from which well-founded recursion gives the equation
  of its values. Then a found placement passes the final test, whatever the memory
  of failed calls holds. Only this direction is used, and only it is true: the
  memory forgets what the finding `rules_memo` is about.

Assumptions: those named in the modules, all of which the code satisfies (at
least two seats, hands that are not empty, markers, levels and attempts that are
numbers, a speaker at least who is no person, and special values that differ from
seats, reasons, keys and commits). `Conditions` and `Rules` assume positive numbers
of seats, cards in a hand and values, decks in which no card comes twice
(`buildCardPool`), and levels of finitely many conditions of the types of
`shared/src/level.ts` whose own limits on all segments, if they state any, are
`CenterCap` (no level of `data.ts` states one). Nothing is assumed of how many
cards, segments or seats there are, of the order of segments, or of counts and
sums that can be met.

Only model-checked: liveness (`AttemptEnds`, `LostSeatSettles`, `DiscussionEnds`,
`NothingGoesUnheard`), which is out of the prover's reach. Every other property of
a passing run is the subject of a theorem, one of them under a hypothesis that the
code does not guarantee and the theorem states: quiet midnights for the daily limit. `NoDealIsRefused`, the other
direction of `DealtIsWinnable`, is false (see Findings). What the calls in flight
may cost (`InFlight`) is no sum over calls but their number per kind of task times
its cost, which the prover can follow through `FS_AddElement` and
`FS_RemoveElement`.

## Plan

Done, in this order: `Relay`, `Table`, `Turns`, `Room`, `Attempt`, `Progress`, the
proofs about table and turns, `Accounts` with `AccountStore` and `Identity`,
`Thinking` with `Budget`, `Discussion` with `Contract`, `Rules` with `Solver`, and
the proofs about each of them.

What is worth doing next:

1. That the counters which the searches keep from card to card (`addCard`,
   `removeCard`) agree with the table, which `Solver` takes for granted.
2. Outcomes of commitments during play, over `Discussion` and `Turns`.

## Not modelled

* *Rate limiters* (`accountRateLimit.ts`, `adminAuth.ts`): sliding windows of time
  that only refuse requests; nothing else depends on them.
* *Scores of candidates, weights of beliefs, interpretation of strategy rules,
  policy of hints* (`agent/candidates`, `belief`, `strategy`): real-valued
  heuristics whose result is one of the legal moves, which `Turns` and `Thinking`
  take any of. What must hold of every choice is in `Rules`.
* *Outcomes of commitments during play*, which end up as wording of a brief.
* *Providers, prompts, telemetry*: external services; models may answer
  anything, fail or be silent.
* *Client, evaluations, agent laboratory*: no state of the server. `Identity` has
  the session a tab keeps.
* *`room:reset`*, which exists outside production only; formatting, logging,
  listing of accounts, avatars and broadcasts, which change no modelled state.
* What a power failure does to unsynced pages; two server processes on one data
  directory, which the code does not support.
