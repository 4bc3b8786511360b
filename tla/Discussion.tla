----------------------------- MODULE Discussion -----------------------------
(***************************************************************************)
(* People and agents discuss a level: chat:send with its guard             *)
(* (server/src/agent/discussionGuard.ts, recordPublicChat in runtime.ts),  *)
(* the loop that lets the agents speak in turn                             *)
(* (discussionCoordinator.ts), what they extract from the chat, and the    *)
(* strategies that are locked when the discussion closes (module           *)
(* Contract).                                                              *)
(*                                                                         *)
(* A loop belongs to the attempt that started it and may outlive it, with  *)
(* a request or a delay under way.  Texts are reduced to their sort; a     *)
(* model's answer is any answer it may give.  Late answers of the models   *)
(* that compile strategies are the subject of module Attempt.              *)
(***************************************************************************)
EXTENDS Contract

CONSTANTS
  Humans,
  Speakers,       \* the agents' seats, in the order of the seats
  MaxFailures,    \* maxConsecutiveFailures
  MaxReplies,     \* MAX_INJECTION_REPLIES, MAX_META_REPLIES_PER_CATEGORY
  BackoffStart,   \* OFF_TOPIC_BACKOFF_START
  HardCap,        \* OFF_TOPIC_HARD_CAP
  Sorts,          \* bound: the sorts of texts that people write
  Extracts,       \* bound: the entities that a model may extract, by attempt
  Proposals,      \* bound: the rules that a model may propose of its own
  MaxFacts,       \* bound: entities per attempt
  MaxAttempts, MaxChat   \* bounds: attempts, messages of people per attempt

ASSUME DiscussionAssumption ==
  /\ Speakers \in Seq({Speakers[i] : i \in DOMAIN Speakers}) \ {<<>>}
  /\ Humans \cap {Speakers[i] : i \in DOMAIN Speakers} = {}
  /\ MaxFailures \in Nat \ {0}
  /\ {MaxReplies, BackoffStart, HardCap, MaxAttempts} \subseteq Nat
  /\ Sorts \subseteq {"talk", "injection", "meta"}

Agents == {Speakers[i] : i \in DOMAIN Speakers}
Attempts == 1..MaxAttempts

VARIABLES
  attempt,    \* room.identity.attemptId
  stage,      \* off, talk, closing (the discussion is being finalized), play
  chat,       \* room.chat
  excluded,   \* excludedIds
  guard,      \* stateBySeat
  facts,      \* shared.publicEntities
  loops,      \* the coordinators: started ones go on until they return
  minutes,    \* the messages that the models see when the discussion closes
  contract,   \* shared.publicContract
  locked,     \* lockedSeatStrategy, or <<>> while it is being compiled
  heard       \* observation: messages of people that some request contained

vars == <<attempt, stage, chat, excluded, guard, facts, loops, minutes, contract, locked, heard>>
chatVars == <<chat, excluded, guard>>
closingVars == <<minutes, contract, locked>>

Ended == [at |-> "ended", speaker |-> 1, round |-> 0, activity |-> 0,
          streak |-> [i \in DOMAIN Speakers |-> 0], view |-> {}, superseded |-> FALSE,
          cancelled |-> FALSE]
NewLoop == [Ended EXCEPT !.at = "initial"]
Unlocked == [s \in Agents |-> <<>>]
Innocent == [h \in Humans |-> [injections |-> 0, metas |-> 0, offTopic |-> 0, backedOff |-> FALSE]]

Init ==
  /\ attempt = 0 /\ stage = "off"
  /\ chat = <<>> /\ excluded = {} /\ guard = Innocent
  /\ facts = <<>>
  /\ loops = [a \in Attempts |-> Ended]
  /\ minutes = {} /\ contract = {} /\ locked = Unlocked
  /\ heard = {}

ByPerson(m) == chat[m].by \in Humans

\* buildDiscussionView.
Visible == DOMAIN chat \ excluded

Written(by, sort, about) == [by |-> by, sort |-> sort, about |-> about]

-----------------------------------------------------------------------------
(* The loop of a coordinator, between its awaits. *)

Eligible(l, i) == l.streak[i] < MaxFailures
Remaining(l) == {i \in DOMAIN Speakers : Eligible(l, i)}
First(some) == CHOOSE i \in some : \A j \in some : i <= j

StartRound(l) ==
  IF Remaining(l) = {} THEN Ended
  ELSE [l EXCEPT !.at = "quiet", !.speaker = First(Remaining(l)), !.round = l.activity,
                 !.view = {}, !.superseded = FALSE]

\* Fault: the activity of the round is not compared before the loop sleeps.
EndRoundAsleep(l) ==
  IF Remaining(l) = {} THEN Ended ELSE [l EXCEPT !.at = "asleep", !.view = {}, !.superseded = FALSE]

EndRound(l) ==
  IF Remaining(l) # {} /\ l.activity = l.round
  THEN [l EXCEPT !.at = "asleep", !.view = {}, !.superseded = FALSE]
  ELSE StartRound(l)

\* On to the next speaker that has not been given up, or to the round's end.
Onwards(l) ==
  LET later == {i \in Remaining(l) : i > l.speaker}
  IN  IF later = {} THEN EndRound(l)
      ELSE [l EXCEPT !.at = "quiet", !.speaker = First(later), !.view = {}, !.superseded = FALSE]

\* notifyActivity: the request under way is superseded, a sleeper wakes.
Notified(l) ==
  LET n == [l EXCEPT !.activity = @ + 1]
  IN  CASE l.at \in {"initial", "asleep"} -> StartRound(n)
        [] l.at = "asking" -> [n EXCEPT !.superseded = TRUE]
        [] OTHER -> n

\* cancel: who sleeps wakes and returns, others when their await is over.
Cancelled(l) ==
  IF l.at \in {"quiet", "asking", "cooldown"}
  THEN [Ended EXCEPT !.at = l.at, !.cancelled = TRUE]
  ELSE Ended
CancelledLoops == [a \in Attempts |-> Cancelled(loops[a])]

\* isActive: not cancelled, and the room is in the phase and the attempt in
\* which the loop started.  The phase is the discussion until the strategies
\* are settled, and an attempt has one discussion, so that the version of the
\* phase says no more than the attempt.
Active(a) == ~loops[a].cancelled /\ stage \in {"talk", "closing"} /\ a = attempt

Returns(a) ==
  /\ ~Active(a)
  /\ loops' = [loops EXCEPT ![a] = Ended]
  /\ UNCHANGED <<attempt, stage, chatVars, facts, closingVars, heard>>

Continues(a, l) == loops' = [loops EXCEPT ![a] = l]

\* The quiet window is over: the model is asked for the speaker's words.
QuietEnds(a) ==
  /\ loops[a].at = "quiet"
  /\ \/ Returns(a)
     \/ /\ Active(a)
        /\ Continues(a, [loops[a] EXCEPT !.at = "asking", !.view = Visible])
        /\ heard' = heard \cup {m \in Visible : ByPerson(m)}
        /\ UNCHANGED <<attempt, stage, chatVars, facts, closingVars>>

CooldownEnds(a) ==
  /\ loops[a].at = "cooldown"
  /\ \/ Returns(a)
     \/ /\ Active(a)
        /\ Continues(a, Onwards(loops[a]))
        /\ UNCHANGED <<attempt, stage, chatVars, facts, closingVars, heard>>

-----------------------------------------------------------------------------
(* Answers. *)

LatestOf(ids) ==
  LET people == {m \in ids : ByPerson(m)}
  IN  IF people = {} THEN 0 ELSE CHOOSE m \in people : \A k \in people : k <= m

\* Fault: the notice stays in the chat that models see.
NoticeForAll(i) ==
  /\ chat' = Append(chat, Written(Speakers[i], "notice", 0))
  /\ UNCHANGED <<excluded, guard>>

\* onSpeakerExhausted: people are told that the agent cannot follow.
Notice(i) ==
  /\ chat' = Append(chat, Written(Speakers[i], "notice", 0))
  /\ excluded' = excluded \cup {Len(chat) + 1}
  /\ UNCHANGED guard

\* null: the provider failed, the deadline passed, the output was illegal, or
\* a newer message superseded the request, which is no failure.
NoAnswer(a) ==
  LET l == loops[a]
      failed == [l EXCEPT !.streak[l.speaker] = @ + 1]
  IN  /\ IF l.superseded
         THEN Continues(a, Onwards(l)) /\ UNCHANGED chatVars
         ELSE /\ Continues(a, Onwards(failed))
              /\ IF ~Eligible(failed, l.speaker) THEN Notice(l.speaker) ELSE UNCHANGED chatVars
      /\ UNCHANGED facts

Recovered(l) == [l EXCEPT !.streak[l.speaker] = 0]

Wait(a) ==
  /\ Continues(a, Onwards(Recovered(loops[a])))
  /\ UNCHANGED <<chatVars, facts>>

\* Fault: a reply is as good as when it was asked for.
StillInFocus(focus) == TRUE

\* The message that is answered is still the latest of the people.
InFocus(focus) == focus = LatestOf(Visible)

\* recordModelVerdict on the writer of the message.
Judged(focus, offTopic) ==
  LET h == chat[focus].by
      strikes == guard[h].offTopic + 1
  IN  [guard EXCEPT ![h] =
         IF offTopic
         THEN [@ EXCEPT !.offTopic = strikes, !.backedOff = @ \/ strikes >= BackoffStart]
         ELSE [@ EXCEPT !.injections = 0, !.offTopic = 0, !.backedOff = FALSE]]

\* ingestDiscussionEntities: what the model of a understood, from the message
\* that it answers or from its own.
Understood(a, focus, mine) ==
  \E e \in Extracts[a], source \in {mine, focus}, cites \in {{}, {focus}} :
    /\ source = mine \/ cites = {}
    /\ facts' = Ingested(facts, [kind |-> e.kind, entity |-> e.entity,
         attribute |-> e.attribute, draft |-> e.draft, certainty |-> e.certainty,
         sources |-> {source}, cites |-> cites])

\* onMessage: speak, suggest_end or decline_off_topic.
Speaks(a, focus, sort) ==
  LET mine == Len(chat) + 1
  IN  /\ chat' = Append(chat, Written(Speakers[loops[a].speaker], sort, focus))
      /\ guard' = Judged(focus, sort = "decline")
      /\ excluded' = IF sort = "decline" THEN excluded \cup {focus, mine} ELSE excluded
      /\ \/ UNCHANGED facts
         \/ sort = "say" /\ Len(facts) < MaxFacts /\ Understood(a, focus, mine)

Reply(a, sort) ==
  LET l == loops[a]
      focus == LatestOf(l.view)
  IN  /\ focus # 0
      /\ IF InFocus(focus)
         THEN Speaks(a, focus, sort) /\ Continues(a, [Recovered(l) EXCEPT !.at = "cooldown", !.view = {}, !.superseded = FALSE])
         ELSE Continues(a, Onwards(Recovered(l))) /\ UNCHANGED <<chatVars, facts>>

Answer(a) ==
  /\ loops[a].at = "asking"
  /\ \/ Returns(a)
     \/ /\ Active(a)
        /\ NoAnswer(a) \/ Wait(a) \/ Reply(a, "say") \/ Reply(a, "decline")
        /\ UNCHANGED <<attempt, stage, closingVars, heard>>

-----------------------------------------------------------------------------
(* People. *)

Posts == Cardinality({m \in DOMAIN chat : ByPerson(m)})

\* A message that stops at the guard, with the first agent's answer or none.
Stopped(h, sort, answered) ==
  /\ chat' = chat \o <<Written(h, sort, 0)>> \o
               (IF answered THEN <<Written(Speakers[1], "local", Len(chat) + 1)>> ELSE <<>>)
  /\ excluded' = excluded \cup {Len(chat) + 1} \cup (IF answered THEN {Len(chat) + 2} ELSE {})
  /\ UNCHANGED loops

BackedOff(h) == guard[h].backedOff \/ guard[h].offTopic >= HardCap

\* chat:send, evaluate and recordPublicChat; also while strategies are
\* compiled, when there is nobody to notify.
ChatSend(h, sort) ==
  /\ stage \in {"talk", "closing"}
  /\ Posts < MaxChat
  /\ CASE sort = "injection" ->
            /\ guard' = [guard EXCEPT ![h].injections = @ + 1]
            /\ Stopped(h, sort, guard[h].injections < MaxReplies)
       [] sort = "meta" ->
            /\ guard' = [guard EXCEPT ![h].metas = @ + 1]
            /\ Stopped(h, sort, guard[h].metas < MaxReplies)
       [] sort = "talk" /\ BackedOff(h) -> Stopped(h, sort, TRUE) /\ UNCHANGED guard
       [] OTHER ->
            /\ chat' = Append(chat, Written(h, sort, 0))
            /\ loops' = IF stage = "talk" THEN [loops EXCEPT ![attempt] = Notified(@)] ELSE loops
            /\ UNCHANGED <<excluded, guard>>
  /\ UNCHANGED <<attempt, stage, facts, closingVars, heard>>

\* The window of a back-off is over.
BackoffEnds(h) ==
  /\ guard[h].backedOff
  /\ guard' = [guard EXCEPT ![h].backedOff = FALSE]
  /\ UNCHANGED <<attempt, stage, chat, excluded, facts, loops, closingVars, heard>>

-----------------------------------------------------------------------------
(* Attempts. *)

\* onDiscussionStarted.
Start ==
  /\ stage = "off"
  /\ attempt < MaxAttempts
  /\ attempt' = attempt + 1
  /\ stage' = "talk"
  /\ chat' = <<>> /\ excluded' = {} /\ guard' = Innocent
  /\ facts' = <<>>
  /\ loops' = [CancelledLoops EXCEPT ![attempt + 1] = NewLoop]
  /\ minutes' = {} /\ contract' = {} /\ locked' = Unlocked
  /\ heard' = {}

\* Of the messages ids, what compiling looks at.
ViewOf(ids) ==
  [ids |-> ids,
   people |-> {m \in ids : ByPerson(m)},
   by |-> [s \in Agents |-> {m \in ids : chat[m].by = s}]]

\* Fault: the discussion is settled while its loop goes on.
CloseUncancelled ==
  /\ stage = "talk"
  /\ stage' = "closing"
  /\ minutes' = Visible
  /\ contract' = Compiled(facts, ViewOf(Visible))
  /\ UNCHANGED <<attempt, chatVars, facts, loops, locked, heard>>

\* finalizeDiscussion up to its awaits.
Close ==
  /\ stage = "talk"
  /\ stage' = "closing"
  /\ loops' = CancelledLoops
  /\ minutes' = Visible
  /\ contract' = Compiled(facts, ViewOf(Visible))
  /\ UNCHANGED <<attempt, chatVars, facts, locked, heard>>

\* A rule that the model of seat s proposes, with a message that it names.
Proposed(p, s, m) ==
  [id |-> <<s, 0>>, type |-> p.type, seats |-> p.seats, segs |-> p.segs,
   param |-> p.param, strength |-> p.strength, sources |-> {m}]

\* What seat s may have for rules of its own.
OwnRules(s) ==
  {{}, Fallback(facts, s)} \cup
  {{Believed(Proposed(p, s, m), s, facts, ViewOf(minutes))} :
     p \in {q \in Proposals : q.seat = s}, m \in DOMAIN chat}

\* A seat's strategy is compiled by its model, which may propose a rule, or
\* by nobody; the last one lets the cards be dealt.
Lock(s) ==
  /\ stage = "closing"
  /\ locked[s] = <<>>
  /\ \E own \in OwnRules(s) :
       locked' = [locked EXCEPT ![s] = <<LockedRules(own, contract, s)>>]
  /\ stage' = IF \E t \in Agents : locked'[t] = <<>> THEN "closing" ELSE "play"
  /\ UNCHANGED <<attempt, chatVars, facts, loops, minutes, contract, heard>>

\* The attempt ends, or is given up; its memory stays until the next one.
EndAttempt ==
  /\ stage # "off"
  /\ stage' = "off"
  /\ loops' = CancelledLoops
  /\ UNCHANGED <<attempt, chatVars, facts, closingVars, heard>>

-----------------------------------------------------------------------------

LoopStep(a) == QuietEnds(a) \/ Answer(a) \/ CooldownEnds(a)

Next ==
  \/ \E a \in Attempts : LoopStep(a)
  \/ \E h \in Humans, sort \in Sorts : ChatSend(h, sort)
  \/ \E h \in Humans : BackoffEnds(h)
  \/ Start \/ Close \/ EndAttempt
  \/ \E s \in Agents : Lock(s)

Spec == Init /\ [][Next]_vars

\* Delays end, and a request has a deadline that aborts it.
FairSpec == Spec /\ \A a \in Attempts : WF_vars(LoopStep(a))

-----------------------------------------------------------------------------
(* Properties. *)

\* Types of the variables.
TypeOK ==
  /\ attempt \in 0..MaxAttempts
  /\ stage \in {"off", "talk", "closing", "play"}
  /\ excluded \cup heard \cup minutes \subseteq DOMAIN chat
  /\ \A a \in Attempts : loops[a].at \in {"initial", "quiet", "asking", "cooldown", "asleep", "ended"}

\* Refused by the guard, or taken for off topic by a model.
Refused(m) == \E k \in DOMAIN chat : chat[k].about = m /\ chat[k].sort \in {"local", "decline"}

\* What an agent is shown of the discussion, when it speaks and when it
\* settles its strategy, is free of what the guard stopped, of what a model
\* called off topic, and of the agents' own excuses.
ModelsSeeTheTalkOnly ==
  \A m \in minutes \cup UNION {loops[a].view : a \in Attempts} :
    chat[m].sort \in {"talk", "say"} /\ ~Refused(m)

\* An agent answers what people said last: no newer message that got past
\* the guard was there when the answer appeared.
AnswersTheLatest ==
  [][\A m \in DOMAIN chat' \ DOMAIN chat :
       chat'[m].sort \in {"say", "decline"} /\ chat # <<>> =>
         \A k \in DOMAIN chat : ByPerson(k) /\ k \notin excluded => k <= chat'[m].about]_vars

\* Models speak while people discuss their attempt, and neither into the
\* strategies that are being settled nor into the next attempt.  While they
\* are settled phase, version and attempt are those of the discussion still:
\* that a request under way comes to nothing rests on the cancel of every
\* handler that ends a discussion.
SpeaksInItsOwnDiscussion ==
  [][\A a \in Attempts :
       loops[a].at = "asking" /\ loops'[a].at # "asking" /\ Len(chat') > Len(chat) =>
         a = attempt /\ stage = "talk"]_vars

\* What binds an agent was agreed: behind every commitment stands a message
\* of somebody else, which models may see, and a fact from it that nobody
\* contradicted until the discussion closed.
CommitmentsAreAgreed ==
  \A s \in Agents : locked[s] # <<>> =>
    \A r \in Commitments(locked[s][1], s) :
      \E m \in r.sources \cap minutes, i \in DOMAIN facts :
        /\ chat[m].by # s
        /\ m \in facts[i].sources \cup facts[i].cites
        /\ Rivals(facts, facts[i]) = {}

\* The contract gives the same seats one confirmed assignment only, with the
\* same parameters, whatever the names that the models gave to what they
\* understood.
ConfirmedRulesAgree ==
  \A r, q \in contract :
    r.strength = Hard /\ q.strength = Hard /\ r.type = "segment_assignment"
      /\ q.type = r.type /\ q.seats = r.seats => SemanticValue(q) = SemanticValue(r)

\* What binds an agent was agreed to by somebody else and contradicted by
\* nobody, and the assignments that people confirmed in the contract give one
\* set of seats one answer.  (Not more: a seat may hold on to a commitment of
\* its own beside another one of the contract, and assignments of different
\* sets of seats that share a seat may differ.)
ContractIsAgreed == TypeOK /\ CommitmentsAreAgreed /\ ConfirmedRulesAgree

\* No message that got past the guard is missed: some request contains it,
\* unless the discussion closes or no agent is left to ask.
NothingGoesUnheard ==
  \A m \in 1..(2 * MaxChat) :
    (stage = "talk" /\ m \in Visible /\ ByPerson(m)) ~>
      (m \in heard \cup excluded \/ stage # "talk" \/ loops[attempt].at = "ended")

=============================================================================
