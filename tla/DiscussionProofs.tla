--------------------------- MODULE DiscussionProofs ---------------------------
(***************************************************************************)
(* Proofs about the discussion, for any number of people, agents, attempts *)
(* and messages, and for models that extract, propose and answer whatever  *)
(* they like: models see the talk and nothing that was refused, answer     *)
(* what people said last and in their own discussion only, and agents are  *)
(* held to what somebody else agreed to and nobody contradicted.           *)
(***************************************************************************)
EXTENDS Discussion, SequenceTheorems, WellFoundedInduction, TLAPS

-----------------------------------------------------------------------------
(* Types. *)

AllSorts == {"talk", "injection", "meta", "say", "decline", "local", "notice"}
Message == [by : Humans \cup Agents, sort : AllSorts, about : Nat]

Places == {"initial", "quiet", "asking", "cooldown", "asleep", "ended"}
Loop == [at : Places, speaker : DOMAIN Speakers, round : Nat, activity : Nat,
         streak : [DOMAIN Speakers -> Nat], view : SUBSET Nat, superseded : BOOLEAN,
         cancelled : BOOLEAN]

\* Facts are made of what the models may extract.
Extracted == UNION {Extracts[a] : a \in Attempts}
Fact == [kind : {e.kind : e \in Extracted}, entity : {e.entity : e \in Extracted},
         attribute : {e.attribute : e \in Extracted}, draft : {e.draft : e \in Extracted},
         certainty : {e.certainty : e \in Extracted} \cup {"conflicted"},
         sources : SUBSET Nat, cites : SUBSET Nat]

Typed ==
  /\ attempt \in 0..MaxAttempts
  /\ stage \in {"off", "talk", "closing", "play"}
  /\ chat \in Seq(Message)
  /\ facts \in Seq(Fact)
  /\ loops \in [Attempts -> Loop]
  /\ locked = [s \in Agents |-> locked[s]]
  /\ excluded \subseteq DOMAIN chat
  /\ heard \subseteq DOMAIN chat

-----------------------------------------------------------------------------
(* The inductive invariant. *)

\* What is not excluded is talk that nobody refused; an answer is about an
\* earlier message, so that a message is not refused before it is written.
VisibleIsTalk ==
  /\ \A m \in Visible : chat[m].sort \in {"talk", "say"} /\ ~Refused(m)
  /\ \A k \in DOMAIN chat : chat[k].about < k

\* Models are shown what is visible still, and only the loop of the attempt
\* that is discussed has a request under way that counts.
ShownIsVisible ==
  /\ minutes \subseteq Visible
  /\ \A a \in Attempts : loops[a].view \subseteq Visible
  /\ \A a \in Attempts : loops[a].view # {} =>
       a = attempt /\ stage = "talk" /\ loops[a].at = "asking"

\* Facts that count have no rivals.
ConflictsAreMarked ==
  \A i \in DOMAIN facts : facts[i].certainty # "conflicted" => Rivals(facts, facts[i]) = {}

\* Nothing is settled while people talk.
NothingIsSettled == stage = "talk" => minutes = {} /\ contract = {} /\ locked = Unlocked

\* Message m stands behind a fact without rivals.
Backs(m) ==
  \E i \in DOMAIN facts : m \in facts[i].sources \cup facts[i].cites /\ Rivals(facts, facts[i]) = {}

\* Behind what the contract confirms stands a person.
ConfirmedByPeople ==
  \A r \in contract : r.strength = Hard => \E m \in r.sources \cap minutes : ByPerson(m) /\ Backs(m)

Talk == VisibleIsTalk /\ ShownIsVisible /\ ConflictsAreMarked
Settled == NothingIsSettled /\ ConfirmedByPeople /\ CommitmentsAreAgreed /\ ConfirmedRulesAgree

DiscussionInv == Typed /\ Talk /\ Settled

\* People talk, in attempt a.
Talking(a) == a = attempt /\ stage = "talk"

\* A coordinator that has not returned was cancelled, or its discussion is on.
LiveLoops ==
  \A a \in Attempts : loops[a].at # "ended" /\ ~loops[a].cancelled => Talking(a)

-----------------------------------------------------------------------------
(* The first speaker of some, and the latest message of people. *)

LEMMA SpeakersDomain == DOMAIN Speakers = 1..Len(Speakers) /\ 1 \in DOMAIN Speakers /\ DOMAIN Speakers \subseteq Nat
  <1> DEFINE S == {Speakers[i] : i \in DOMAIN Speakers}
  <1>1. Speakers \in Seq(S) /\ Speakers # <<>>
    BY DiscussionAssumption
  <1> HIDE DEF S
  <1>2. DOMAIN Speakers = 1..Len(Speakers) /\ Len(Speakers) \in Nat \ {0}
    BY <1>1, LenProperties, EmptySeq
  <1> QED
    BY <1>2

LEMMA LeastOf ==
  ASSUME NEW S \in SUBSET Nat, S # {}
  PROVE  \E i \in S : \A j \in S : i <= j
  <1>1. PICK i \in S : \A j \in S : ~ (<<j, i>> \in OpToRel(<, Nat))
    BY NatLessThanWellFounded, WFMin
  <1>2. \A j \in S : i <= j
    <2> SUFFICES ASSUME NEW j \in S PROVE i <= j
      OBVIOUS
    <2>1. i \in Nat /\ j \in Nat
      OBVIOUS
    <2>2. ~(j < i)
      BY <1>1, <2>1 DEF OpToRel
    <2> QED
      BY <2>1, <2>2
  <1> QED
    BY <1>2

LEMMA FirstSpeaker ==
  ASSUME NEW S \in SUBSET DOMAIN Speakers, S # {}
  PROVE  First(S) \in S
  <1>1. S \in SUBSET Nat
    BY SpeakersDomain
  <1> QED
    BY <1>1, LeastOf DEF First

LEMMA LatestPerson ==
  ASSUME Typed, NEW ids \in SUBSET DOMAIN chat
  PROVE  \/ LatestOf(ids) = 0 /\ ~\E k \in ids : ByPerson(k)
         \/ /\ LatestOf(ids) \in ids /\ ByPerson(LatestOf(ids)) /\ LatestOf(ids) # 0
            /\ \A k \in ids : ByPerson(k) => k <= LatestOf(ids)
  <1> DEFINE people == {m \in ids : ByPerson(m)}
  <1>1. CASE people = {}
    BY <1>1 DEF LatestOf
  <1>2. CASE people # {}
    <2>1. Len(chat) \in Nat /\ DOMAIN chat = 1..Len(chat)
      BY LenProperties DEF Typed
    <2>2. PICK n \in Nat : n = Len(chat)
      BY <2>1
    <2> DEFINE S == {n - m : m \in people}
    <2>3. S \in SUBSET Nat /\ S # {}
      BY <1>2, <2>1, <2>2
    <2>4. PICK i \in S : \A j \in S : i <= j
      BY <2>3, LeastOf
    <2>5. PICK m \in people : i = n - m
      BY <2>4
    <2>6. \A k \in people : k <= m
      <3> SUFFICES ASSUME NEW k \in people PROVE k <= m
        OBVIOUS
      <3>1. n - m <= n - k /\ k \in Nat /\ m \in Nat
        BY <2>1, <2>4, <2>5
      <3> QED
        BY <3>1, <2>2
    <2>7. LatestOf(ids) = CHOOSE u \in people : \A k \in people : k <= u
      BY <1>2 DEF LatestOf
    <2>8. LatestOf(ids) \in people /\ \A k \in people : k <= LatestOf(ids)
      BY <2>6, <2>7
    <2> QED
      BY <2>1, <2>8
  <1> QED
    BY <1>1, <1>2

-----------------------------------------------------------------------------
(* What the steps of a coordinator do to its loop. *)

\* The loop is well formed and shows nothing to a model.
Blank(l) == l \in Loop /\ l.view = {}

LEMMA LoopFields ==
  ASSUME NEW l \in Loop
  PROVE  /\ l.at \in Places /\ l.speaker \in DOMAIN Speakers /\ l.round \in Nat
         /\ l.activity \in Nat /\ l.streak \in [DOMAIN Speakers -> Nat]
         /\ l.view \subseteq Nat /\ l.superseded \in BOOLEAN /\ l.cancelled \in BOOLEAN
  BY DEF Loop

LEMMA EndedBlank == Blank(Ended)
  BY SpeakersDomain DEF Blank, Ended, Loop, Places

\* A loop is somewhere else with nothing shown: all that StartRound, Onwards
\* and the like do to the fields that matter.
LEMMA MovedBlank ==
  ASSUME NEW l \in Loop, NEW p \in Places, NEW s \in DOMAIN Speakers, NEW r \in Nat
  PROVE  /\ Blank([l EXCEPT !.at = p, !.speaker = s, !.round = r, !.view = {}, !.superseded = FALSE])
         /\ Blank([l EXCEPT !.at = p, !.speaker = s, !.view = {}, !.superseded = FALSE])
         /\ Blank([l EXCEPT !.at = p, !.view = {}, !.superseded = FALSE])
  <1> QED
    BY DEF Blank, Loop

LEMMA RoundBlank ==
  ASSUME NEW l \in Loop
  PROVE  Blank(StartRound(l)) /\ Blank(EndRound(l)) /\ Blank(Onwards(l))
  <1>1. Blank(StartRound(l))
    <2>1. CASE Remaining(l) = {}
      BY <2>1, EndedBlank DEF StartRound
    <2>2. CASE Remaining(l) # {}
      <3>1. First(Remaining(l)) \in DOMAIN Speakers
        BY <2>2, FirstSpeaker DEF Remaining
      <3>2. PICK s \in DOMAIN Speakers : s = First(Remaining(l))
        BY <3>1
      <3>3. PICK r \in Nat : r = l.activity
        BY LoopFields
      <3>4. "quiet" \in Places
        BY DEF Places
      <3>5. Blank([l EXCEPT !.at = "quiet", !.speaker = s, !.round = r, !.view = {}, !.superseded = FALSE])
        BY <3>4, MovedBlank
      <3> QED
        BY <2>2, <3>2, <3>3, <3>5 DEF StartRound
    <2> QED
      BY <2>1, <2>2
  <1>2. Blank(EndRound(l))
    <2>1. "asleep" \in Places /\ 1 \in DOMAIN Speakers /\ 0 \in Nat
      BY SpeakersDomain DEF Places
    <2>2. Blank([l EXCEPT !.at = "asleep", !.view = {}, !.superseded = FALSE])
      BY <2>1, MovedBlank
    <2> QED
      BY <1>1, <2>2 DEF EndRound
  <1>3. Blank(Onwards(l))
    <2> DEFINE later == {i \in Remaining(l) : i > l.speaker}
    <2>1. CASE later = {}
      BY <1>2, <2>1 DEF Onwards
    <2>2. CASE later # {}
      <3>1. First(later) \in DOMAIN Speakers
        BY <2>2, FirstSpeaker DEF Remaining
      <3>2. PICK s \in DOMAIN Speakers : s = First(later)
        BY <3>1
      <3>3. "quiet" \in Places /\ 0 \in Nat
        BY DEF Places
      <3>4. Blank([l EXCEPT !.at = "quiet", !.speaker = s, !.view = {}, !.superseded = FALSE])
        BY <3>3, MovedBlank
      <3> QED
        BY <2>2, <3>2, <3>4 DEF Onwards
    <2> QED
      BY <2>1, <2>2
  <1> QED
    BY <1>1, <1>2, <1>3

\* A failure is counted, or forgotten.
LEMMA StreakMoves ==
  ASSUME NEW l \in Loop
  PROVE  /\ Recovered(l) \in Loop
         /\ [l EXCEPT !.streak[l.speaker] = @ + 1] \in Loop
  <1>1. /\ [l.streak EXCEPT ![l.speaker] = 0] \in [DOMAIN Speakers -> Nat]
        /\ [l.streak EXCEPT ![l.speaker] = l.streak[l.speaker] + 1] \in [DOMAIN Speakers -> Nat]
    BY LoopFields
  <1>2. ASSUME NEW f \in [DOMAIN Speakers -> Nat]
        PROVE  [l EXCEPT !.streak = f] \in Loop
    BY DEF Loop
  <1>3. Recovered(l) = [l EXCEPT !.streak = [l.streak EXCEPT ![l.speaker] = 0]]
    BY DEF Recovered, Loop
  <1>4. [l EXCEPT !.streak[l.speaker] = @ + 1]
          = [l EXCEPT !.streak = [l.streak EXCEPT ![l.speaker] = l.streak[l.speaker] + 1]]
    BY DEF Loop
  <1> QED
    BY <1>1, <1>2, <1>3, <1>4

\* Activity ends a wait or supersedes a request, whose view stays as it is.
LEMMA NotifiedLoop ==
  ASSUME NEW l \in Loop
  PROVE  /\ Notified(l) \in Loop
         /\ Notified(l).view = {} \/ (Notified(l).view = l.view /\ Notified(l).at = l.at)
         /\ l.at = "asking" => Notified(l).at = "asking"
  <1> DEFINE n == [l EXCEPT !.activity = @ + 1]
  <1>1. n \in Loop /\ n.at = l.at /\ n.view = l.view
    <2>1. PICK x \in Nat : x = l.activity + 1
      BY LoopFields
    <2>2. [l EXCEPT !.activity = x] \in Loop
      BY DEF Loop
    <2>3. n = [l EXCEPT !.activity = x]
      BY <2>1 DEF Loop
    <2>4. [l EXCEPT !.activity = x].at = l.at /\ [l EXCEPT !.activity = x].view = l.view
      BY DEF Loop
    <2> QED
      BY <2>2, <2>3, <2>4
  <1>2. CASE l.at \in {"initial", "asleep"}
    <2>1. Notified(l) = StartRound(n)
      BY <1>2 DEF Notified
    <2> HIDE DEF n
    <2>2. Blank(StartRound(n))
      BY <1>1, RoundBlank
    <2> QED
      BY <1>2, <2>1, <2>2 DEF Blank
  <1>3. CASE l.at = "asking"
    <2>1. Notified(l) = [n EXCEPT !.superseded = TRUE]
      BY <1>3 DEF Notified
    <2> HIDE DEF n
    <2>2. PICK x \in Loop : x = n
      BY <1>1
    <2>3. /\ [x EXCEPT !.superseded = TRUE] \in Loop
          /\ [x EXCEPT !.superseded = TRUE].at = x.at /\ [x EXCEPT !.superseded = TRUE].view = x.view
      BY DEF Loop
    <2> QED
      BY <1>1, <1>3, <2>1, <2>2, <2>3
  <1>4. CASE l.at \notin {"initial", "asleep", "asking"}
    <2>1. Notified(l) = n
      BY <1>4 DEF Notified
    <2> QED
      BY <1>1, <1>4, <2>1
  <1> QED
    BY <1>2, <1>3, <1>4

LEMMA CancelledBlank ==
  ASSUME NEW a \in Attempts, Typed
  PROVE  Blank(Cancelled(loops[a])) /\ (Cancelled(loops[a]).at = "asking" <=> loops[a].at = "asking")
  <1>1. loops[a] \in Loop
    BY DEF Typed
  <1>2. PICK p \in Places : p = loops[a].at
    BY <1>1, LoopFields
  <1>3. /\ Blank([Ended EXCEPT !.at = p, !.cancelled = TRUE])
        /\ [Ended EXCEPT !.at = p, !.cancelled = TRUE].at = p
    BY SpeakersDomain DEF Blank, Ended, Loop, Places
  <1>4. Ended.at = "ended"
    BY DEF Ended
  <1> QED
    BY <1>2, <1>3, <1>4, EndedBlank DEF Cancelled

-----------------------------------------------------------------------------
(* A chat that grows keeps what was said. *)

\* Some messages are added, none is changed.
ChatGrows ==
  /\ chat' \in Seq(Message)
  /\ DOMAIN chat \subseteq DOMAIN chat'
  /\ \A k \in DOMAIN chat : chat'[k] = chat[k]
  /\ \A k \in DOMAIN chat' \ DOMAIN chat, m \in DOMAIN chat : m < k

LEMMA ChatDomain ==
  ASSUME Typed
  PROVE  /\ Len(chat) \in Nat /\ DOMAIN chat = 1..Len(chat) /\ DOMAIN chat \subseteq Nat
         /\ Visible \subseteq DOMAIN chat
         /\ \A k \in DOMAIN chat : chat[k] \in Message /\ chat[k].about \in Nat
  <1>1. chat \in Seq(Message)
    BY DEF Typed
  <1>2. Len(chat) \in Nat /\ DOMAIN chat = 1..Len(chat) /\ \A k \in 1..Len(chat) : chat[k] \in Message
    BY <1>1, LenProperties, ElementOfSeq
  <1> QED
    BY <1>2 DEF Visible, Message

LEMMA UnchangedGrows ==
  ASSUME Typed, chat' = chat
  PROVE  ChatGrows
  BY DEF Typed, ChatGrows

LEMMA WrittenIsMessage ==
  ASSUME NEW by \in Humans \cup Agents, NEW sort \in AllSorts, NEW about \in Nat
  PROVE  /\ Written(by, sort, about) \in Message
         /\ Written(by, sort, about).by = by /\ Written(by, sort, about).sort = sort
         /\ Written(by, sort, about).about = about
  BY DEF Written, Message

LEMMA AppendGrows ==
  ASSUME Typed, NEW w \in Message, chat' = Append(chat, w)
  PROVE  /\ ChatGrows /\ DOMAIN chat' \ DOMAIN chat = {Len(chat) + 1}
         /\ chat'[Len(chat) + 1] = w /\ Len(chat) + 1 \in DOMAIN chat'
  <1>1. PICK c \in Seq(Message) : c = chat
    BY DEF Typed
  <1>2. PICK n \in Nat : n = Len(chat)
    BY ChatDomain
  <1>3. /\ chat' \in Seq(Message) /\ Len(chat') = n + 1
        /\ \A i \in 1..n : chat'[i] = chat[i]
    BY <1>1, <1>2, AppendProperties
  <1>4. chat'[n + 1] = w
    BY <1>1, <1>2, AppendProperties
  <1>5. DOMAIN chat' = 1..(n + 1) /\ DOMAIN chat = 1..n
    BY <1>2, <1>3, ChatDomain, LenProperties
  <1>6. DOMAIN chat' \ DOMAIN chat = {n + 1}
    BY <1>5
  <1> QED
    BY <1>2, <1>3, <1>4, <1>5, <1>6 DEF ChatGrows

\* A message and the answer to it, if any.
LEMMA PairGrows ==
  ASSUME Typed, NEW w \in Message, NEW v \in Message, NEW answered \in BOOLEAN,
         chat' = chat \o <<w>> \o (IF answered THEN <<v>> ELSE <<>>)
  PROVE  /\ ChatGrows /\ chat'[Len(chat) + 1] = w
         /\ Len(chat) + 1 \in DOMAIN chat'
         /\ answered => /\ DOMAIN chat' \ DOMAIN chat = {Len(chat) + 1, Len(chat) + 2}
                        /\ chat'[Len(chat) + 2] = v
         /\ ~answered => DOMAIN chat' \ DOMAIN chat = {Len(chat) + 1}
  <1>1. PICK c \in Seq(Message) : c = chat
    BY DEF Typed
  <1>2. PICK n \in Nat : n = Len(chat)
    BY ChatDomain
  <1>3. PICK d \in Seq(Message) : d = Append(c, w)
    BY AppendProperties
  <1>4. Len(d) = n + 1 /\ d[n + 1] = w /\ \A i \in 1..n : d[i] = chat[i]
    BY <1>1, <1>2, <1>3, AppendProperties
  <1>5. DOMAIN chat = 1..n /\ DOMAIN d = 1..(n + 1)
    BY <1>2, <1>3, <1>4, ChatDomain, LenProperties
  <1>6. chat \o <<w>> = d
    BY <1>1, <1>3, AppendIsConcat
  <1>7. CASE answered
    <2>1. chat' = d \o <<v>>
      BY <1>6, <1>7
    <2>2. PICK e \in Seq(Message) : e = Append(d, v)
      BY AppendProperties
    <2>3. Len(e) = Len(d) + 1 /\ e[Len(d) + 1] = v /\ \A i \in 1..Len(d) : e[i] = d[i]
      BY <2>2, AppendProperties
    <2>4. (n + 1) + 1 = n + 2 /\ chat' = e
      BY <2>1, <2>2, AppendIsConcat
    <2>5. Len(chat') = n + 2 /\ chat'[n + 2] = v /\ \A i \in 1..(n + 1) : chat'[i] = d[i]
      BY <1>4, <2>3, <2>4
    <2>6. DOMAIN chat' = 1..(n + 2) /\ chat' \in Seq(Message)
      BY <2>4, <2>5, LenProperties
    <2>7. DOMAIN chat' \ DOMAIN chat = {n + 1, n + 2}
      BY <1>5, <2>6
    <2>8. ChatGrows
      BY <1>4, <1>5, <2>5, <2>6 DEF ChatGrows
    <2>9. n + 1 \in 1..(n + 1) /\ n + 1 \in DOMAIN chat'
      BY <2>6
    <2>10. chat'[n + 1] = w
      BY <1>4, <2>5, <2>9
    <2> QED
      BY <1>2, <1>7, <2>5, <2>7, <2>8, <2>9, <2>10
  <1>8. CASE ~answered
    <2>1. chat' = d /\ d \in Seq(Message)
      BY <1>3, <1>6, <1>8, ConcatEmptySeq
    <2>2. DOMAIN chat' \ DOMAIN chat = {n + 1}
      BY <1>5, <2>1
    <2>4. \A k \in DOMAIN chat : chat'[k] = chat[k]
      BY <1>4, <1>5, <2>1
    <2>5. DOMAIN chat \subseteq DOMAIN chat'
      BY <1>5, <2>1
    <2>6. \A k \in DOMAIN chat' \ DOMAIN chat, m \in DOMAIN chat : m < k
      BY <1>5, <2>2
    <2>3. ChatGrows
      BY <2>1, <2>4, <2>5, <2>6 DEF ChatGrows
    <2> QED
      BY <1>2, <1>4, <1>5, <1>8, <2>1, <2>2, <2>3
  <1> QED
    BY <1>7, <1>8

-----------------------------------------------------------------------------
(* The talk that models see, kept by what is said and refused. *)

\* What is added is either refused at once or talk; and a refusal excludes
\* the message it is about.
LEMMA VisibleStaysTalk ==
  ASSUME Typed, VisibleIsTalk, ChatGrows, excluded \subseteq excluded',
         \A k \in DOMAIN chat' \ DOMAIN chat :
           /\ chat'[k].about < k
           /\ k \in excluded' \/ chat'[k].sort \in {"talk", "say"}
           /\ chat'[k].sort \in {"local", "decline"} => chat'[k].about \in excluded'
  PROVE  VisibleIsTalk'
  <1>1. /\ DOMAIN chat \subseteq DOMAIN chat' /\ DOMAIN chat \subseteq Nat
        /\ \A k \in DOMAIN chat : chat'[k] = chat[k]
        /\ \A k \in DOMAIN chat' \ DOMAIN chat, m \in DOMAIN chat : m < k
    BY ChatDomain DEF ChatGrows
  <1>2. DOMAIN chat' \subseteq Nat
    BY LenProperties DEF ChatGrows
  <1>3. \A k \in DOMAIN chat' : chat'[k].about < k
    BY <1>1 DEF VisibleIsTalk
  <1>4. ASSUME NEW m \in Visible'
        PROVE  chat'[m].sort \in {"talk", "say"} /\ ~Refused(m)'
    <2>1. m \in DOMAIN chat' /\ m \notin excluded'
      BY <1>4 DEF Visible
    <2>2. chat'[m].sort \in {"talk", "say"}
      BY <1>1, <2>1 DEF VisibleIsTalk, Visible
    <2>3. ASSUME NEW k \in DOMAIN chat', chat'[k].about = m, chat'[k].sort \in {"local", "decline"}
          PROVE  FALSE
      <3>1. k \in DOMAIN chat
        BY <2>1, <2>3
      <3>2. m < k /\ m \in Nat /\ k \in Nat
        BY <1>2, <1>3, <2>1, <2>3
      <3>3. m \in DOMAIN chat
        BY <1>1, <2>1, <3>1, <3>2
      <3>4. m \in Visible
        BY <2>1, <3>3 DEF Visible
      <3>5. chat[k].about = m /\ chat[k].sort \in {"local", "decline"}
        BY <1>1, <2>3, <3>1
      <3> QED
        BY <3>1, <3>4, <3>5 DEF VisibleIsTalk, Refused
    <2> QED
      BY <2>2, <2>3 DEF Refused
  <1> QED
    BY <1>3, <1>4 DEF VisibleIsTalk

\* Nothing visible is excluded, and no loop is shown anything new.
LEMMA ShownStays ==
  ASSUME Typed, ShownIsVisible, ChatGrows, excluded' \cap DOMAIN chat = excluded,
         UNCHANGED <<minutes, attempt, stage>>,
         \A a \in Attempts : \/ loops'[a].view = {}
                             \/ loops'[a].view = loops[a].view /\ loops'[a].at = loops[a].at
  PROVE  ShownIsVisible'
  <1>1. Visible \subseteq Visible'
    BY DEF Visible, ChatGrows
  <1> QED
    BY <1>1 DEF ShownIsVisible

LEMMA NothingShown ==
  ASSUME minutes' \subseteq Visible', \A a \in Attempts : Blank(loops'[a])
  PROVE  ShownIsVisible'
  BY DEF ShownIsVisible, Blank

\* While people talk only the loop of this discussion shows anything.
LEMMA OthersShowNothing ==
  ASSUME Typed, ShownIsVisible, NEW a \in Attempts
  PROVE  loops[a].view = {} \/ (a = attempt /\ stage = "talk" /\ loops[a].at = "asking")
  BY DEF ShownIsVisible

-----------------------------------------------------------------------------
(* What is settled, kept once nobody talks any more. *)

LEMMA BacksStays ==
  ASSUME facts' = facts, NEW m, Backs(m)
  PROVE  Backs(m)'
  BY DEF Backs, Rivals

\* Somebody else stands behind a rule of seat s, and nobody contradicts it.
AgreedOn(r, s) ==
  \E m \in r.sources \cap minutes, i \in DOMAIN facts :
    /\ chat[m].by # s
    /\ m \in facts[i].sources \cup facts[i].cites
    /\ Rivals(facts, facts[i]) = {}

LEMMA CommitmentsAreAgreedOn ==
  CommitmentsAreAgreed <=>
    \A s \in Agents : locked[s] # <<>> => \A r \in Commitments(locked[s][1], s) : AgreedOn(r, s)
  BY DEF CommitmentsAreAgreed, AgreedOn

LEMMA CommitmentsAgreedNext ==
  ASSUME \A s \in Agents : locked'[s] # <<>> =>
           \A r \in Commitments(locked'[s][1], s) : AgreedOn(r, s)'
  PROVE  CommitmentsAreAgreed'
  BY DEF CommitmentsAreAgreed, AgreedOn

LEMMA SettledStays ==
  ASSUME Typed, Settled, minutes \subseteq Visible, ChatGrows, UNCHANGED <<facts, closingVars>>,
         stage' = "talk" => stage = "talk"
  PROVE  Settled'
  <1>1. /\ minutes' = minutes /\ contract' = contract /\ locked' = locked /\ facts' = facts
        /\ \A m \in minutes : chat'[m] = chat[m]
    BY ChatDomain DEF closingVars, ChatGrows
  <1>2. NothingIsSettled'
    BY <1>1 DEF Settled, NothingIsSettled
  <1>3. ConfirmedByPeople'
    <2> SUFFICES ASSUME NEW r \in contract, r.strength = Hard
                 PROVE  \E m \in r.sources \cap minutes : ByPerson(m)' /\ Backs(m)'
      BY <1>1 DEF ConfirmedByPeople
    <2>1. PICK m \in r.sources \cap minutes : ByPerson(m) /\ Backs(m)
      BY DEF Settled, ConfirmedByPeople
    <2>2. ByPerson(m)' /\ Backs(m)'
      BY <1>1, <2>1, BacksStays DEF ByPerson
    <2> QED
      BY <2>2
  <1>4. CommitmentsAreAgreed'
    <2> SUFFICES ASSUME NEW s \in Agents, locked'[s] # <<>>, NEW r \in Commitments(locked'[s][1], s)
                 PROVE  AgreedOn(r, s)'
      BY CommitmentsAreAgreedOn, CommitmentsAgreedNext
    <2>1. locked[s] # <<>> /\ r \in Commitments(locked[s][1], s)
      BY <1>1
    <2>2. AgreedOn(r, s)
      BY <2>1, CommitmentsAreAgreedOn DEF Settled
    <2> QED
      BY <1>1, <2>2 DEF AgreedOn
  <1>5. ConfirmedRulesAgree'
    BY <1>1 DEF Settled, ConfirmedRulesAgree
  <1> QED
    BY <1>2, <1>3, <1>4, <1>5 DEF Settled

LEMMA NothingSettledYet ==
  ASSUME minutes' = {}, contract' = {}, locked' = Unlocked
  PROVE  Settled'
  <1>1. \A s \in Agents : locked'[s] = <<>>
    BY DEF Unlocked
  <1> QED
    BY <1>1 DEF Settled, NothingIsSettled, ConfirmedByPeople, CommitmentsAreAgreed,
                ConfirmedRulesAgree

\* While people talk facts may change, as nothing is settled.
LEMMA SettledInTalk ==
  ASSUME Settled, stage = "talk", UNCHANGED closingVars
  PROVE  Settled'
  BY NothingSettledYet DEF Settled, NothingIsSettled, closingVars

-----------------------------------------------------------------------------
(* Facts: who contradicts a fact marks it. *)

LEMMA ConflictedFields ==
  ASSUME NEW g \in Fact
  PROVE  /\ [g EXCEPT !.certainty = "conflicted"] \in Fact
         /\ [g EXCEPT !.certainty = "conflicted"].certainty = "conflicted"
         /\ [g EXCEPT !.certainty = "conflicted"].kind = g.kind
         /\ [g EXCEPT !.certainty = "conflicted"].entity = g.entity
         /\ [g EXCEPT !.certainty = "conflicted"].attribute = g.attribute
         /\ [g EXCEPT !.certainty = "conflicted"].draft = g.draft
         /\ [g EXCEPT !.certainty = "conflicted"].cites = g.cites
         /\ [g EXCEPT !.certainty = "conflicted"].sources = g.sources
  BY DEF Fact

\* Two facts say something else of one subject.
Contradict(f, g) ==
  /\ f.kind = g.kind /\ f.entity = g.entity /\ f.attribute = g.attribute
  /\ f.draft # g.draft \/ f.cites # g.cites

LEMMA RivalsContradict ==
  ASSUME NEW fs \in Seq(Fact), NEW f
  PROVE  Rivals(fs, f) = {i \in DOMAIN fs : Contradict(fs[i], f)}
  BY DEF Rivals, SameSubject, Contradict

\* Of a fact that is marked, only its certainty changes.
SameClaim(f, g) ==
  /\ f.kind = g.kind /\ f.entity = g.entity /\ f.attribute = g.attribute
  /\ f.draft = g.draft /\ f.cites = g.cites

LEMMA SameClaimsContradict ==
  ASSUME NEW f, NEW g, NEW x, NEW y, SameClaim(f, g), SameClaim(x, y)
  PROVE  Contradict(f, x) <=> Contradict(g, y)
  BY DEF SameClaim, Contradict

LEMMA IngestedMarks ==
  ASSUME facts \in Seq(Fact), ConflictsAreMarked, NEW f \in Fact, f.sources # {},
         facts' = Ingested(facts, f)
  PROVE  facts' \in Seq(Fact) /\ ConflictsAreMarked'
  <1>1. PICK old \in Seq(Fact) : old = facts
    OBVIOUS
  <1>2. PICK n \in Nat : n = Len(old)
    BY LenProperties
  <1>3. DOMAIN old = 1..n /\ \A i \in 1..n : old[i] \in Fact
    BY <1>2, LenProperties, ElementOfSeq
  <1>4. PICK rivals : rivals = Rivals(old, f)
    OBVIOUS
  <1>5. rivals = {i \in 1..n : Contradict(old[i], f)}
    BY <1>3, <1>4, RivalsContradict
  <1> DEFINE fs == [i \in 1..n |-> IF i \in rivals THEN [old[i] EXCEPT !.certainty = "conflicted"]
                                                   ELSE old[i]]
             g == IF rivals = {} THEN f ELSE [f EXCEPT !.certainty = "conflicted"]
  <1>6. \A i \in 1..n : /\ fs[i] \in Fact /\ SameClaim(fs[i], old[i])
                        /\ fs[i].certainty = IF i \in rivals THEN "conflicted" ELSE old[i].certainty
    BY <1>3, ConflictedFields DEF SameClaim
  <1>7. /\ g \in Fact /\ SameClaim(g, f)
        /\ g.certainty = IF rivals = {} THEN f.certainty ELSE "conflicted"
    BY ConflictedFields DEF SameClaim
  <1>8. facts' = Append(fs, g)
    BY <1>1, <1>3, <1>4, ConflictedFields DEF Ingested, Upserted
  <1>9. fs \in Seq(Fact) /\ Len(fs) = n
    <2>1. fs \in [1..n -> Fact]
      BY <1>6
    <2>2. fs \in Seq(Fact)
      BY <2>1, SeqDef
    <2>3. DOMAIN fs = 1..n /\ DOMAIN fs = 1..Len(fs) /\ Len(fs) \in Nat
      BY <2>2, LenProperties
    <2> HIDE DEF fs
    <2> QED
      BY <2>2, <2>3
  <1> HIDE DEF fs, g
  <1>10. /\ facts' \in Seq(Fact) /\ DOMAIN facts' = 1..(n + 1)
         /\ facts'[n + 1] = g /\ \A i \in 1..n : facts'[i] = fs[i]
    <2>1. PICK e \in Seq(Fact) : e = Append(fs, g)
      BY <1>7, <1>9, AppendProperties
    <2>2. Len(e) = n + 1 /\ e[n + 1] = g /\ \A i \in 1..n : e[i] = fs[i]
      BY <1>7, <1>9, <2>1, AppendProperties
    <2> QED
      BY <1>8, <2>1, <2>2, LenProperties
  <1>11. ASSUME NEW j \in DOMAIN facts', facts'[j].certainty # "conflicted",
                NEW i \in DOMAIN facts', Contradict(facts'[i], facts'[j])
         PROVE  FALSE
    <2>1. CASE j \in 1..n /\ i \in 1..n
      <3>1. j \notin rivals /\ old[j].certainty # "conflicted"
        BY <1>6, <1>10, <1>11, <2>1
      <3>2. Contradict(old[i], old[j])
        BY <1>6, <1>10, <1>11, <2>1, SameClaimsContradict
      <3>3. i \in Rivals(old, old[j])
        BY <1>3, <2>1, <3>2, RivalsContradict
      <3> QED
        BY <1>1, <1>3, <2>1, <3>1, <3>3 DEF ConflictsAreMarked
    <2>2. CASE j \in 1..n /\ i = n + 1
      <3>1. Contradict(f, old[j])
        BY <1>6, <1>7, <1>10, <1>11, <2>2, SameClaimsContradict
      <3>2. j \in rivals
        BY <1>5, <2>2, <3>1 DEF Contradict
      <3> QED
        BY <1>6, <1>10, <1>11, <2>2, <3>2
    <2>3. CASE j = n + 1 /\ i \in 1..n
      <3>1. Contradict(old[i], f)
        BY <1>6, <1>7, <1>10, <1>11, <2>3, SameClaimsContradict
      <3>2. rivals # {}
        BY <1>5, <2>3, <3>1
      <3> QED
        BY <1>7, <1>10, <1>11, <2>3, <3>2
    <2>4. CASE j = n + 1 /\ i = n + 1
      BY <1>11, <2>4 DEF Contradict
    <2> QED
      BY <1>10, <2>1, <2>2, <2>3, <2>4
  <1>12. ASSUME NEW j \in DOMAIN facts', facts'[j].certainty # "conflicted"
         PROVE  Rivals(facts', facts'[j]) = {}
    BY <1>10, <1>11, <1>12, RivalsContradict
  <1> QED
    BY <1>10, <1>12 DEF ConflictsAreMarked

-----------------------------------------------------------------------------
(* The contract that is compiled when the discussion closes. *)

\* What a claim is made of: a fact that is a rule and not contradicted, and
\* the messages behind it that are seen.
LEMMA ClaimIsBacked ==
  ASSUME NEW view, NEW r \in ClaimedRules(facts, view), r.strength = Hard
  PROVE  \E i \in DOMAIN facts :
           /\ facts[i].certainty # "conflicted" /\ r.sources = Cited(facts[i], view)
           /\ Cited(facts[i], view) \cap view.people # {}
  BY DEF ClaimedRules, Confirmed, Hard, Strong, Unresolved

\* A claim that stays hard was made as it is and has no other on its key.
LEMMA HardIsUncontested ==
  ASSUME NEW view, NEW r \in Compiled(facts, view), r.strength = Hard
  PROVE  /\ r \in ClaimedRules(facts, view)
         /\ \A q \in ClaimedRules(facts, view) :
              SemanticKey(q) = SemanticKey(r) => SemanticValue(q) = SemanticValue(r)
  <1> DEFINE claimed == ClaimedRules(facts, view)
             Contested(x) == \E q \in claimed : /\ SemanticKey(q) = SemanticKey(x)
                                                /\ SemanticValue(q) # SemanticValue(x)
  <1>1. PICK x \in claimed : r = IF Contested(x) THEN [x EXCEPT !.strength = Unresolved] ELSE x
    BY DEF Compiled
  <1>2. [x EXCEPT !.strength = Unresolved].strength = Unresolved
    BY DEF ClaimedRules
  <1>3. ~Contested(x)
    BY <1>1, <1>2 DEF Hard, Unresolved
  <1> QED
    BY <1>1, <1>3

LEMMA CompiledIsAgreed ==
  ASSUME Typed, ConflictsAreMarked, minutes' = Visible, chat' = chat, facts' = facts,
         contract' = Compiled(facts, ViewOf(Visible))
  PROVE  ConfirmedByPeople' /\ ConfirmedRulesAgree'
  <1> DEFINE view == ViewOf(Visible)
  <1>1. view.ids = Visible /\ view.people = {m \in Visible : ByPerson(m)}
    BY DEF ViewOf
  <1> HIDE DEF view
  <1>2. contract' = Compiled(facts, view)
    BY DEF view
  <1>3. ConfirmedByPeople'
    <2> SUFFICES ASSUME NEW r \in Compiled(facts, view), r.strength = Hard
                 PROVE  \E m \in r.sources \cap Visible : ByPerson(m)' /\ Backs(m)'
      BY <1>2 DEF ConfirmedByPeople
    <2>1. r \in ClaimedRules(facts, view)
      BY HardIsUncontested
    <2>2. PICK i \in DOMAIN facts :
            /\ facts[i].certainty # "conflicted" /\ r.sources = Cited(facts[i], view)
            /\ Cited(facts[i], view) \cap view.people # {}
      BY <2>1, ClaimIsBacked
    <2>3. PICK m \in Cited(facts[i], view) : m \in view.people
      BY <2>2
    <2>4. m \in facts[i].sources \cup facts[i].cites /\ m \in Visible /\ ByPerson(m)
      BY <1>1, <2>3 DEF Cited
    <2>5. Backs(m)
      BY <2>2, <2>4 DEF Backs, ConflictsAreMarked
    <2>6. Backs(m)' /\ ByPerson(m)'
      BY <2>4, <2>5, BacksStays DEF ByPerson
    <2> QED
      BY <2>2, <2>3, <2>4, <2>6
  <1>4. ConfirmedRulesAgree'
    <2> SUFFICES ASSUME NEW r \in Compiled(facts, view), NEW q \in Compiled(facts, view),
                        r.strength = Hard, q.strength = Hard, r.type = "segment_assignment",
                        q.type = r.type, q.seats = r.seats
                 PROVE  SemanticValue(q) = SemanticValue(r)
      BY <1>2 DEF ConfirmedRulesAgree
    <2>1. q \in ClaimedRules(facts, view)
      BY HardIsUncontested
    <2>2. SemanticKey(q) = SemanticKey(r)
      BY DEF SemanticKey
    <2> QED
      BY <2>1, <2>2, HardIsUncontested
  <1> QED
    BY <1>3, <1>4

-----------------------------------------------------------------------------
(* The strategy that a seat locks. *)

\* A rule of the seat's own that binds is agreed, whoever proposed it.
LEMMA BelievedIsAgreed ==
  ASSUME Typed, ConflictsAreMarked, NEW s \in Agents, NEW r,
         r = [id |-> r.id, type |-> r.type, seats |-> r.seats, segs |-> r.segs,
              param |-> r.param, strength |-> r.strength, sources |-> r.sources],
         Believed(r, s, facts, ViewOf(minutes)).strength = Hard
  PROVE  AgreedOn(Believed(r, s, facts, ViewOf(minutes)), s)
  <1> DEFINE view == ViewOf(minutes)
             b == Believed(r, s, facts, view)
             known == r.sources \cap view.ids
             capped == IF r.type = "custom" /\ r.strength \in {Hard, Strong}
                       THEN "suggestion" ELSE r.strength
             agreed == IF capped = Hard /\ ~Agreed(r, s, facts, view) THEN Unresolved ELSE capped
  <1>1. view.ids = minutes /\ view.by[s] = {m \in minutes : chat[m].by = s}
    BY DEF ViewOf
  <1>2. /\ b.sources = known
        /\ b.strength = IF known \cap SourcesOf(FactsOf(facts, "conflicted")) # {}
                        THEN Unresolved ELSE agreed
    BY DEF Believed
  <1> HIDE DEF view, b
  <1>3. b.strength = Hard
    BY DEF b, view
  <1>4. Agreed(r, s, facts, view)
    BY <1>2, <1>3 DEF Hard, Unresolved
  <1>5. PICK m \in r.sources \cap view.ids :
          /\ m \in SourcesOf({f \in FactsOf(facts, "explicit") :
                                f.kind \in {"commitment", "strategy_rule"}})
          /\ m \notin view.by[s]
    BY <1>4 DEF Agreed
  <1>6. PICK i \in DOMAIN facts : facts[i].certainty = "explicit" /\ m \in facts[i].sources
    BY <1>5 DEF SourcesOf, FactsOf
  <1>7. Rivals(facts, facts[i]) = {}
    BY <1>6 DEF ConflictsAreMarked
  <1>8. m \in b.sources \cap minutes /\ chat[m].by # s
    BY <1>1, <1>2, <1>5
  <1>9. AgreedOn(b, s)
    BY <1>6, <1>7, <1>8 DEF AgreedOn
  <1> QED
    BY <1>9 DEF b, view

\* The fallback binds nobody.
LEMMA FallbackIsSoft ==
  ASSUME NEW s, NEW r \in Fallback(facts, s)
  PROVE  r.strength # Hard
  BY DEF Fallback, Hard, Strong, Unresolved

LEMMA PublicIsAgreed ==
  ASSUME ConfirmedByPeople, NEW s \in Agents, NEW r \in contract, r.strength = Hard
  PROVE  AgreedOn(r, s)
  <1>1. PICK m \in r.sources \cap minutes : ByPerson(m) /\ Backs(m)
    BY DEF ConfirmedByPeople
  <1>2. chat[m].by # s
    BY <1>1, DiscussionAssumption DEF ByPerson, Agents
  <1> QED
    BY <1>1, <1>2 DEF AgreedOn, Backs

\* What the seat is held to: the contract, and own rules that are agreed.
LEMMA LockedIsAgreed ==
  ASSUME ConfirmedByPeople, NEW s \in Agents, NEW own,
         \A r \in own : r.strength = Hard => AgreedOn(r, s),
         NEW r \in Commitments(LockedRules(own, contract, s), s)
  PROVE  AgreedOn(r, s)
  <1>1. r.strength = Hard /\ (r \in contract \/ r \in own)
    BY DEF Commitments, LockedRules
  <1> QED
    BY <1>1, PublicIsAgreed

-----------------------------------------------------------------------------
(* The coordinators. *)

LEMMA Parts ==
  ASSUME DiscussionInv
  PROVE  /\ Typed /\ Talk /\ Settled /\ VisibleIsTalk /\ ShownIsVisible /\ ConflictsAreMarked
         /\ NothingIsSettled /\ ConfirmedByPeople /\ CommitmentsAreAgreed /\ ConfirmedRulesAgree
         /\ minutes \subseteq Visible
  BY DEF DiscussionInv, Talk, Settled, ShownIsVisible

LEMMA UnchangedTalk ==
  ASSUME DiscussionInv, UNCHANGED <<chat, excluded, facts>>
  PROVE  VisibleIsTalk' /\ ConflictsAreMarked'
  <1>1. VisibleIsTalk'
    BY Parts, UnchangedGrows, VisibleStaysTalk
  <1>2. ConflictsAreMarked'
    BY Parts DEF ConflictsAreMarked, Rivals
  <1> QED
    BY <1>1, <1>2

\* A loop goes on, perhaps with a request that shows what is visible.
LEMMA LoopMoves ==
  ASSUME DiscussionInv, NEW a \in Attempts, NEW l \in Loop, Continues(a, l),
         UNCHANGED <<attempt, stage, chat, excluded, facts, closingVars>>,
         heard' \subseteq DOMAIN chat,
         l.view = {} \/ (l.view = Visible /\ l.at = "asking" /\ Talking(a))
  PROVE  DiscussionInv'
  <1>1. Typed'
    BY Parts DEF Typed, Continues, closingVars
  <1>2. VisibleIsTalk' /\ ConflictsAreMarked'
    BY UnchangedTalk
  <1>3. ShownIsVisible'
    <2>1. \A b \in Attempts : loops'[b] = IF b = a THEN l ELSE loops[b]
      BY Parts DEF Typed, Continues
    <2>2. Visible' = Visible
      BY DEF Visible
    <2> QED
      BY <2>1, <2>2, Parts DEF ShownIsVisible, closingVars, Talking
  <1>4. Settled'
    BY Parts, UnchangedGrows, SettledStays
  <1> QED
    BY <1>1, <1>2, <1>3, <1>4 DEF DiscussionInv, Talk

\* While people talk no model's view outlives the answer of its loop.
LEMMA NobodyElseShown ==
  ASSUME DiscussionInv, NEW a \in Attempts, Talking(a), NEW l, Blank(l), Continues(a, l),
         UNCHANGED closingVars
  PROVE  ShownIsVisible'
  <1>1. \A b \in Attempts : loops'[b] = IF b = a THEN l ELSE loops[b]
    BY Parts DEF Typed, Continues
  <1>2. \A b \in Attempts : Blank(loops'[b])
    BY <1>1, Parts DEF Typed, Blank, ShownIsVisible, Talking
  <1>3. minutes' = {}
    BY Parts DEF NothingIsSettled, Talking, closingVars
  <1> QED
    BY <1>2, <1>3, NothingShown

\* An agent writes: words, a refusal or a notice.
LEMMA AgentWrites ==
  ASSUME DiscussionInv, NEW a \in Attempts, Talking(a), NEW l, Blank(l), Continues(a, l),
         NEW w \in Message, chat' = Append(chat, w), w.about < Len(chat) + 1,
         excluded \subseteq excluded', excluded' \subseteq DOMAIN chat',
         Len(chat) + 1 \in excluded' \/ w.sort \in {"talk", "say"},
         w.sort \in {"local", "decline"} => w.about \in excluded',
         UNCHANGED <<attempt, stage, closingVars, heard>>,
         facts' \in Seq(Fact), ConflictsAreMarked'
  PROVE  DiscussionInv'
  <1>1. /\ ChatGrows /\ DOMAIN chat' \ DOMAIN chat = {Len(chat) + 1}
        /\ chat'[Len(chat) + 1] = w
    BY Parts, AppendGrows
  <1>2. Typed'
    <2>1. heard' \subseteq DOMAIN chat' /\ chat' \in Seq(Message)
      BY <1>1, Parts DEF Typed, ChatGrows
    <2>2. loops' \in [Attempts -> Loop]
      BY Parts DEF Typed, Continues, Blank
    <2> QED
      BY <2>1, <2>2, Parts DEF Typed, closingVars
  <1>3. VisibleIsTalk'
    BY <1>1, Parts, VisibleStaysTalk
  <1>4. ShownIsVisible'
    BY NobodyElseShown
  <1>5. Settled'
    BY Parts, SettledInTalk DEF Talking
  <1> QED
    BY <1>2, <1>3, <1>4, <1>5 DEF DiscussionInv, Talk

LEMMA ReturnsKeeps ==
  ASSUME DiscussionInv, NEW a \in Attempts, Returns(a)
  PROVE  DiscussionInv'
  <1>1. /\ Continues(a, Ended) /\ UNCHANGED <<attempt, stage, chat, excluded, facts, closingVars>>
        /\ heard' = heard
    BY DEF Returns, Continues, chatVars
  <1>2. Ended \in Loop /\ Ended.view = {} /\ heard \subseteq DOMAIN chat
    BY EndedBlank, Parts DEF Blank, Typed
  <1> QED
    BY <1>1, <1>2, LoopMoves

\* isActive after an await: the discussion of the loop is still on.
LEMMA LiveTalks ==
  ASSUME LiveLoops, NEW a \in Attempts, Active(a), loops[a].at \in {"quiet", "asking", "cooldown"}
  PROVE  Talking(a)
  BY DEF LiveLoops, Active

LEMMA QuietKeeps ==
  ASSUME DiscussionInv, LiveLoops, NEW a \in Attempts, QuietEnds(a)
  PROVE  DiscussionInv'
  <1>1. CASE Returns(a)
    BY <1>1, ReturnsKeeps
  <1>2. CASE Active(a) /\ ~Returns(a)
    <2>1. PICK l \in Loop : l = loops[a]
      BY Parts DEF Typed
    <2>2. PICK v \in SUBSET Nat : v = Visible
      BY Parts, ChatDomain
    <2>3. PICK x : x = [l EXCEPT !.at = "asking", !.view = v]
      OBVIOUS
    <2>4. x \in Loop /\ x.at = "asking" /\ x.view = v
      BY <2>3 DEF Loop, Places
    <2>5. /\ Continues(a, x) /\ heard' = heard \cup {m \in Visible : ByPerson(m)}
          /\ UNCHANGED <<attempt, stage, chat, excluded, facts, closingVars>>
      BY <1>2, <2>1, <2>2, <2>3 DEF QuietEnds, chatVars
    <2>6. heard' \subseteq DOMAIN chat
      BY <2>5, Parts, ChatDomain DEF Typed
    <2>7. Talking(a)
      BY <1>2, LiveTalks DEF QuietEnds
    <2> QED
      BY <2>2, <2>4, <2>5, <2>6, <2>7, LoopMoves
  <1> QED
    BY <1>1, <1>2 DEF QuietEnds

LEMMA CooldownKeeps ==
  ASSUME DiscussionInv, LiveLoops, NEW a \in Attempts, CooldownEnds(a)
  PROVE  DiscussionInv'
  <1>1. CASE Returns(a)
    BY <1>1, ReturnsKeeps
  <1>2. CASE Active(a) /\ ~Returns(a)
    <2>1. PICK l \in Loop : l = loops[a]
      BY Parts DEF Typed
    <2>2. /\ Continues(a, Onwards(l)) /\ heard' = heard
          /\ UNCHANGED <<attempt, stage, chat, excluded, facts, closingVars>>
      BY <1>2, <2>1 DEF CooldownEnds, chatVars
    <2>3. Onwards(l) \in Loop /\ Onwards(l).view = {} /\ heard \subseteq DOMAIN chat
      BY RoundBlank, Parts DEF Blank, Typed
    <2> QED
      BY <2>2, <2>3, LoopMoves
  <1> QED
    BY <1>1, <1>2 DEF CooldownEnds

-----------------------------------------------------------------------------
(* The answers of the models. *)

\* A loop goes on to its next speaker, and nothing is said.
LEMMA SilentKeeps ==
  ASSUME DiscussionInv, NEW a \in Attempts, NEW l \in Loop, Continues(a, Onwards(l)),
         UNCHANGED <<attempt, stage, chatVars, facts, closingVars, heard>>
  PROVE  DiscussionInv'
  <1>1. Onwards(l) \in Loop /\ Onwards(l).view = {} /\ heard' \subseteq DOMAIN chat
    BY RoundBlank, Parts DEF Blank, Typed
  <1> QED
    BY <1>1, LoopMoves DEF chatVars

LEMMA NoticeKeeps ==
  ASSUME DiscussionInv, NEW a \in Attempts, Talking(a), NEW l \in Loop, Continues(a, Onwards(l)),
         NEW i \in DOMAIN Speakers, Notice(i), facts' = facts,
         UNCHANGED <<attempt, stage, closingVars, heard>>
  PROVE  DiscussionInv'
  <1>1. PICK w : w = Written(Speakers[i], "notice", 0)
    OBVIOUS
  <1>2. w \in Message /\ w.about = 0 /\ w.sort = "notice"
    BY <1>1, WrittenIsMessage DEF AllSorts, Agents
  <1>3. chat' = Append(chat, w) /\ excluded' = excluded \cup {Len(chat) + 1}
    BY <1>1 DEF Notice
  <1>4. Blank(Onwards(l))
    BY RoundBlank
  <1>5. excluded' \subseteq DOMAIN chat'
    BY <1>2, <1>3, Parts, AppendGrows DEF Typed, ChatGrows
  <1>6. facts' \in Seq(Fact) /\ ConflictsAreMarked'
    BY Parts DEF Typed, ConflictsAreMarked, Rivals
  <1>7. w.about < Len(chat) + 1
    BY <1>2, Parts, ChatDomain
  <1> QED
    BY <1>2, <1>3, <1>4, <1>5, <1>6, <1>7, AgentWrites

LEMMA NoAnswerKeeps ==
  ASSUME DiscussionInv, NEW a \in Attempts, Talking(a), NoAnswer(a),
         UNCHANGED <<attempt, stage, closingVars, heard>>
  PROVE  DiscussionInv'
  <1>1. PICK l \in Loop : l = loops[a]
    BY Parts DEF Typed
  <1>2. PICK failed \in Loop : failed = [l EXCEPT !.streak[l.speaker] = @ + 1]
    BY StreakMoves
  <1>3. l.speaker \in DOMAIN Speakers /\ facts' = facts
    BY LoopFields DEF NoAnswer
  <1>4. CASE l.superseded
    <2>1. Continues(a, Onwards(l)) /\ UNCHANGED chatVars
      BY <1>1, <1>4 DEF NoAnswer
    <2> QED
      BY <1>3, <2>1, SilentKeeps
  <1>5. CASE ~l.superseded
    <2>1. /\ Continues(a, Onwards(failed))
          /\ Notice(l.speaker) \/ UNCHANGED chatVars
      BY <1>1, <1>2, <1>5 DEF NoAnswer
    <2> QED
      BY <1>3, <2>1, SilentKeeps, NoticeKeeps
  <1> QED
    BY <1>4, <1>5

\* The message that is answered is there, seen and written by a person.
LEMMA FocusIsSeen ==
  ASSUME DiscussionInv, NEW focus, InFocus(focus), focus # 0
  PROVE  focus \in Visible /\ focus \in DOMAIN chat /\ focus \in Nat /\ focus < Len(chat) + 1
  <1>1. Visible \in SUBSET DOMAIN chat
    BY Parts, ChatDomain
  <1>2. LatestOf(Visible) = focus
    BY DEF InFocus
  <1>3. focus \in Visible
    BY <1>1, <1>2, Parts, LatestPerson
  <1> QED
    BY <1>1, <1>3, Parts, ChatDomain

\* What a model understood is a fact with a source.
LEMMA UnderstoodMarks ==
  ASSUME DiscussionInv, NEW a \in Attempts, NEW focus \in Nat, NEW mine \in Nat,
         Understood(a, focus, mine)
  PROVE  facts' \in Seq(Fact) /\ ConflictsAreMarked'
  <1>1. PICK e \in Extracts[a], source \in {mine, focus}, cites \in {{}, {focus}} :
          facts' = Ingested(facts, [kind |-> e.kind, entity |-> e.entity,
            attribute |-> e.attribute, draft |-> e.draft, certainty |-> e.certainty,
            sources |-> {source}, cites |-> cites])
    BY DEF Understood
  <1>2. PICK f : f = [kind |-> e.kind, entity |-> e.entity,
            attribute |-> e.attribute, draft |-> e.draft, certainty |-> e.certainty,
            sources |-> {source}, cites |-> cites]
    OBVIOUS
  <1>3. e \in Extracted
    BY DEF Extracted
  <1>4. /\ e.kind \in {x.kind : x \in Extracted} /\ e.entity \in {x.entity : x \in Extracted}
        /\ e.attribute \in {x.attribute : x \in Extracted}
        /\ e.draft \in {x.draft : x \in Extracted}
        /\ e.certainty \in {x.certainty : x \in Extracted} \cup {"conflicted"}
        /\ {source} \in SUBSET Nat /\ cites \in SUBSET Nat
    BY <1>3
  <1>5. f \in Fact /\ f.sources = {source}
    BY <1>2, <1>4 DEF Fact
  <1>6. f.sources # {} /\ facts' = Ingested(facts, f)
    BY <1>1, <1>2, <1>5
  <1> QED
    BY <1>5, <1>6, Parts, IngestedMarks DEF Typed

LEMMA SpeaksKeeps ==
  ASSUME DiscussionInv, NEW a \in Attempts, Talking(a), NEW focus, InFocus(focus), focus # 0,
         NEW sort \in {"say", "decline"}, Speaks(a, focus, sort),
         NEW l, Blank(l), Continues(a, l), UNCHANGED <<attempt, stage, closingVars, heard>>
  PROVE  DiscussionInv'
  <1>1. focus \in Nat /\ focus \in DOMAIN chat /\ focus < Len(chat) + 1
    BY FocusIsSeen
  <1>2. loops[a].speaker \in DOMAIN Speakers
    BY Parts, LoopFields DEF Typed
  <1>3. PICK w : w = Written(Speakers[loops[a].speaker], sort, focus)
    OBVIOUS
  <1>4. w \in Message /\ w.about = focus /\ w.sort = sort
    <2>1. PICK by \in Humans \cup Agents : by = Speakers[loops[a].speaker]
      BY <1>2 DEF Agents
    <2>2. sort \in AllSorts
      BY DEF AllSorts
    <2> QED
      BY <1>1, <1>3, <2>1, <2>2, WrittenIsMessage
  <1>5. PICK mine \in Nat : mine = Len(chat) + 1
    BY Parts, ChatDomain
  <1>6. /\ chat' = Append(chat, w)
        /\ excluded' = IF sort = "decline" THEN excluded \cup {focus, mine} ELSE excluded
        /\ facts' = facts \/ Understood(a, focus, mine)
    BY <1>3, <1>5 DEF Speaks
  <1>7. facts' \in Seq(Fact) /\ ConflictsAreMarked'
    <2>1. CASE facts' = facts
      BY <2>1, Parts DEF Typed, ConflictsAreMarked, Rivals
    <2>2. CASE Understood(a, focus, mine)
      BY <1>1, <2>2, UnderstoodMarks
    <2> QED
      BY <1>6, <2>1, <2>2
  <1>8. excluded \subseteq excluded' /\ excluded' \subseteq DOMAIN chat'
    BY <1>1, <1>4, <1>5, <1>6, Parts, AppendGrows DEF Typed, ChatGrows
  <1>9. /\ w.about < Len(chat) + 1
        /\ Len(chat) + 1 \in excluded' \/ w.sort \in {"talk", "say"}
        /\ w.sort \in {"local", "decline"} => w.about \in excluded'
    BY <1>1, <1>4, <1>5, <1>6
  <1> QED
    BY <1>4, <1>6, <1>7, <1>8, <1>9, AgentWrites

LEMMA ReplyKeeps ==
  ASSUME DiscussionInv, NEW a \in Attempts, Talking(a), NEW sort \in {"say", "decline"},
         Reply(a, sort), UNCHANGED <<attempt, stage, closingVars, heard>>
  PROVE  DiscussionInv'
  <1>1. PICK l \in Loop : l = loops[a]
    BY Parts DEF Typed
  <1>2. PICK focus : focus = LatestOf(l.view) /\ focus # 0
    BY <1>1 DEF Reply
  <1>3. PICK r \in Loop : r = Recovered(l)
    BY StreakMoves
  <1>4. CASE InFocus(focus)
    <2>1. PICK x : x = [r EXCEPT !.at = "cooldown", !.view = {}, !.superseded = FALSE]
      OBVIOUS
    <2>2. Speaks(a, focus, sort) /\ Continues(a, x)
      BY <1>1, <1>2, <1>3, <1>4, <2>1 DEF Reply
    <2>3. Blank(x)
      <3>1. "cooldown" \in Places /\ 1 \in DOMAIN Speakers /\ 0 \in Nat
        BY SpeakersDomain DEF Places
      <3> QED
        BY <2>1, <3>1, MovedBlank
    <2> QED
      BY <1>2, <1>4, <2>2, <2>3, SpeaksKeeps
  <1>5. CASE ~InFocus(focus)
    <2>1. Continues(a, Onwards(r)) /\ UNCHANGED <<chatVars, facts>>
      BY <1>1, <1>2, <1>3, <1>5 DEF Reply
    <2> QED
      BY <2>1, SilentKeeps
  <1> QED
    BY <1>4, <1>5

LEMMA AnswerKeeps ==
  ASSUME DiscussionInv, LiveLoops, NEW a \in Attempts, Answer(a)
  PROVE  DiscussionInv'
  <1>1. CASE Returns(a)
    BY <1>1, ReturnsKeeps
  <1>2. CASE ~Returns(a)
    <2>1. /\ Talking(a) /\ UNCHANGED <<attempt, stage, closingVars, heard>>
          /\ NoAnswer(a) \/ Wait(a) \/ Reply(a, "say") \/ Reply(a, "decline")
      BY <1>2, LiveTalks DEF Answer
    <2>2. CASE Wait(a)
      <3>1. PICK l \in Loop : l = loops[a]
        BY Parts DEF Typed
      <3>2. PICK r \in Loop : r = Recovered(l)
        BY StreakMoves
      <3>3. Continues(a, Onwards(r)) /\ UNCHANGED <<chatVars, facts>>
        BY <2>2, <3>1, <3>2 DEF Wait
      <3> QED
        BY <2>1, <3>3, SilentKeeps
    <2> QED
      BY <2>1, <2>2, NoAnswerKeeps, ReplyKeeps
  <1> QED
    BY <1>1, <1>2


-----------------------------------------------------------------------------
(* People. *)

\* What people may write: their sorts of text, and the guard's own answer.
LEMMA PersonWrites ==
  ASSUME NEW h \in Humans, NEW sort \in Sorts
  PROVE  /\ Written(h, sort, 0) \in Message /\ Written(h, sort, 0).about = 0
         /\ Written(h, sort, 0).sort = sort /\ sort \in {"talk", "injection", "meta"}
  <1>1. sort \in {"talk", "injection", "meta"} /\ sort \in AllSorts
    BY DiscussionAssumption DEF AllSorts
  <1> QED
    BY <1>1, WrittenIsMessage

LEMMA GuardAnswers ==
  ASSUME NEW about \in Nat
  PROVE  /\ Written(Speakers[1], "local", about) \in Message
         /\ Written(Speakers[1], "local", about).about = about
         /\ Written(Speakers[1], "local", about).sort = "local"
  <1>1. Speakers[1] \in Humans \cup Agents
    BY SpeakersDomain DEF Agents
  <1>2. "local" \in AllSorts
    BY DEF AllSorts
  <1> QED
    BY <1>1, <1>2, WrittenIsMessage

\* The messages that a stopped message adds.
LEMMA StoppedAdds ==
  ASSUME Typed, NEW h \in Humans, NEW sort \in Sorts, NEW answered \in BOOLEAN,
         Stopped(h, sort, answered)
  PROVE  /\ ChatGrows
         /\ excluded' = excluded \cup (DOMAIN chat' \ DOMAIN chat)
         /\ \A k \in DOMAIN chat' \ DOMAIN chat :
              /\ chat'[k].about < k /\ chat'[k].sort \in {"talk", "injection", "meta", "local"}
              /\ chat'[k].sort = "local" => chat'[k].about \in DOMAIN chat' \ DOMAIN chat
  <1>1. PICK n \in Nat : n = Len(chat)
    BY ChatDomain
  <1>2. PICK w \in Message : /\ w = Written(h, sort, 0) /\ w.about = 0
                             /\ w.sort \in {"talk", "injection", "meta"}
    BY PersonWrites
  <1>3. PICK v \in Message : /\ v = Written(Speakers[1], "local", n + 1)
                             /\ v.about = n + 1 /\ v.sort = "local"
    BY GuardAnswers
  <1>4. /\ chat' = chat \o <<w>> \o (IF answered THEN <<v>> ELSE <<>>)
        /\ excluded' = excluded \cup {n + 1} \cup (IF answered THEN {n + 2} ELSE {})
    BY <1>1, <1>2, <1>3 DEF Stopped
  <1>5. /\ ChatGrows /\ chat'[n + 1] = w
        /\ answered => DOMAIN chat' \ DOMAIN chat = {n + 1, n + 2} /\ chat'[n + 2] = v
        /\ ~answered => DOMAIN chat' \ DOMAIN chat = {n + 1}
    BY <1>1, <1>4, PairGrows
  <1>6. CASE answered
    <2>1. excluded' = excluded \cup {n + 1, n + 2}
      BY <1>4, <1>6
    <2> QED
      BY <1>2, <1>3, <1>5, <1>6, <2>1
  <1>7. CASE ~answered
    <2>1. excluded' = excluded \cup {n + 1}
      BY <1>4, <1>7
    <2> QED
      BY <1>2, <1>5, <1>7, <2>1
  <1> QED
    BY <1>6, <1>7

LEMMA StoppedKeeps ==
  ASSUME DiscussionInv, NEW h \in Humans, NEW sort \in Sorts, NEW answered \in BOOLEAN,
         Stopped(h, sort, answered), UNCHANGED <<attempt, stage, facts, closingVars, heard>>
  PROVE  DiscussionInv'
  <1>1. /\ ChatGrows /\ loops' = loops
        /\ excluded' = excluded \cup (DOMAIN chat' \ DOMAIN chat)
        /\ \A k \in DOMAIN chat' \ DOMAIN chat :
             /\ chat'[k].about < k /\ chat'[k].sort \in {"talk", "injection", "meta", "local"}
             /\ chat'[k].sort = "local" => chat'[k].about \in DOMAIN chat' \ DOMAIN chat
    BY Parts, StoppedAdds DEF Stopped
  <1>2. Typed'
    BY <1>1, Parts DEF Typed, ChatGrows, closingVars
  <1>3. VisibleIsTalk'
    BY <1>1, Parts, VisibleStaysTalk
  <1>4. ShownIsVisible'
    <2>1. excluded' \cap DOMAIN chat = excluded /\ minutes' = minutes
      BY <1>1, Parts DEF Typed, closingVars
    <2> QED
      BY <1>1, <2>1, Parts, ShownStays
  <1>5. ConflictsAreMarked'
    BY Parts DEF ConflictsAreMarked, Rivals
  <1>6. Settled'
    BY <1>1, Parts, SettledStays
  <1> QED
    BY <1>2, <1>3, <1>4, <1>5, <1>6 DEF DiscussionInv, Talk

\* A message that gets past the guard, and the loop that is told of it.
PassesGuard(h, sort) ==
  /\ chat' = Append(chat, Written(h, sort, 0))
  /\ loops' = IF stage = "talk" THEN [loops EXCEPT ![attempt] = Notified(@)] ELSE loops
  /\ UNCHANGED <<excluded, guard>>

LEMMA SendEither ==
  ASSUME NEW h \in Humans, NEW sort \in Sorts, ChatSend(h, sort)
  PROVE  /\ UNCHANGED <<attempt, stage, facts, closingVars, heard>>
         /\ stage \in {"talk", "closing"}
         /\ \/ \E answered \in BOOLEAN : Stopped(h, sort, answered)
            \/ sort = "talk" /\ PassesGuard(h, sort)
  <1>1. sort \in {"talk", "injection", "meta"}
    BY PersonWrites
  <1>2. CASE sort = "injection"
    <2>1. Stopped(h, sort, guard[h].injections < MaxReplies)
      BY <1>2 DEF ChatSend
    <2>2. Stopped(h, sort, TRUE) \/ Stopped(h, sort, FALSE)
      <3>1. CASE guard[h].injections < MaxReplies
        BY <2>1, <3>1 DEF Stopped
      <3>2. CASE ~(guard[h].injections < MaxReplies)
        BY <2>1, <3>2 DEF Stopped
      <3> QED
        BY <3>1, <3>2
    <2> QED
      BY <2>2 DEF ChatSend
  <1>3. CASE sort = "meta"
    <2>1. Stopped(h, sort, guard[h].metas < MaxReplies)
      BY <1>3 DEF ChatSend
    <2>2. Stopped(h, sort, TRUE) \/ Stopped(h, sort, FALSE)
      <3>1. CASE guard[h].metas < MaxReplies
        BY <2>1, <3>1 DEF Stopped
      <3>2. CASE ~(guard[h].metas < MaxReplies)
        BY <2>1, <3>2 DEF Stopped
      <3> QED
        BY <3>1, <3>2
    <2> QED
      BY <2>2 DEF ChatSend
  <1>4. CASE sort = "talk" /\ BackedOff(h)
    <2>1. Stopped(h, sort, TRUE)
      BY <1>4 DEF ChatSend
    <2> QED
      BY <2>1 DEF ChatSend
  <1>5. CASE sort = "talk" /\ ~BackedOff(h)
    <2>1. PassesGuard(h, sort)
      BY <1>5 DEF ChatSend, PassesGuard
    <2> QED
      BY <1>5, <2>1 DEF ChatSend
  <1> QED
    BY <1>1, <1>2, <1>3, <1>4, <1>5

\* Nobody's view changes, and who asks goes on asking.
LEMMA NotifiedLoops ==
  ASSUME Typed, NEW h, NEW sort, PassesGuard(h, sort)
  PROVE  /\ loops' \in [Attempts -> Loop]
         /\ \A a \in Attempts :
              /\ \/ loops'[a].view = {}
                 \/ loops'[a].view = loops[a].view /\ loops'[a].at = loops[a].at
              /\ loops[a].at = "asking" => loops'[a].at = "asking"
  <1>1. \A a \in Attempts : loops[a] \in Loop
    BY DEF Typed
  <1>2. \A a \in Attempts : loops'[a] = loops[a] \/ loops'[a] = Notified(loops[a])
    BY DEF Typed, PassesGuard
  <1>3. loops' = [a \in Attempts |-> loops'[a]]
    BY DEF Typed, PassesGuard
  <1>4. ASSUME NEW a \in Attempts
        PROVE  /\ loops'[a] \in Loop
               /\ \/ loops'[a].view = {}
                  \/ loops'[a].view = loops[a].view /\ loops'[a].at = loops[a].at
               /\ loops[a].at = "asking" => loops'[a].at = "asking"
    BY <1>1, <1>2, NotifiedLoop
  <1> QED
    BY <1>3, <1>4

LEMMA PassesKeeps ==
  ASSUME DiscussionInv, NEW h \in Humans, NEW sort \in Sorts, sort = "talk",
         PassesGuard(h, sort), UNCHANGED <<attempt, stage, facts, closingVars, heard>>
  PROVE  DiscussionInv'
  <1>1. PICK w \in Message : w = Written(h, sort, 0) /\ w.about = 0 /\ w.sort = "talk"
    BY PersonWrites
  <1>2. PICK n \in Nat : n = Len(chat)
    BY Parts, ChatDomain
  <1>3. chat' = Append(chat, w) /\ excluded' = excluded
    BY <1>1 DEF PassesGuard
  <1>4. ChatGrows /\ DOMAIN chat' \ DOMAIN chat = {n + 1} /\ chat'[n + 1] = w
    BY <1>2, <1>3, Parts, AppendGrows
  <1>5. Typed'
    BY <1>3, <1>4, Parts, NotifiedLoops DEF Typed, ChatGrows, closingVars
  <1>6. VisibleIsTalk'
    BY <1>1, <1>3, <1>4, Parts, VisibleStaysTalk
  <1>7. ShownIsVisible'
    <2>1. excluded' \cap DOMAIN chat = excluded /\ minutes' = minutes
      BY <1>3, Parts DEF Typed, closingVars
    <2>2. \A a \in Attempts : \/ loops'[a].view = {}
                              \/ loops'[a].view = loops[a].view /\ loops'[a].at = loops[a].at
      BY Parts, NotifiedLoops
    <2> QED
      BY <1>4, <2>1, <2>2, Parts, ShownStays
  <1>8. ConflictsAreMarked'
    BY Parts DEF ConflictsAreMarked, Rivals
  <1>9. Settled'
    BY <1>4, Parts, SettledStays
  <1> QED
    BY <1>5, <1>6, <1>7, <1>8, <1>9 DEF DiscussionInv, Talk

LEMMA SendKeeps ==
  ASSUME DiscussionInv, NEW h \in Humans, NEW sort \in Sorts, ChatSend(h, sort)
  PROVE  DiscussionInv'
  <1>1. UNCHANGED <<attempt, stage, facts, closingVars, heard>>
    BY SendEither
  <1>2. CASE \E answered \in BOOLEAN : Stopped(h, sort, answered)
    BY <1>1, <1>2, StoppedKeeps
  <1>3. CASE sort = "talk" /\ PassesGuard(h, sort)
    BY <1>1, <1>3, PassesKeeps
  <1> QED
    BY <1>2, <1>3, SendEither

-----------------------------------------------------------------------------
(* Attempts. *)

\* What is said and understood stays, and whatever is under way is hidden
\* from the models or stays what it is.
LEMMA ResetKeeps ==
  ASSUME DiscussionInv, UNCHANGED <<attempt, chat, excluded, facts, heard>>,
         stage' \in {"off", "talk", "closing", "play"}, loops' = CancelledLoops,
         locked' = [s \in Agents |-> locked'[s]], minutes' \subseteq Visible, Settled'
  PROVE  DiscussionInv'
  <1>1. \A a \in Attempts : Blank(loops'[a])
    BY Parts, CancelledBlank DEF CancelledLoops
  <1>2. Typed'
    <2>1. loops' \in [Attempts -> Loop]
      BY <1>1 DEF CancelledLoops, Blank
    <2> QED
      BY <2>1, Parts DEF Typed
  <1>3. ShownIsVisible'
    BY <1>1, NothingShown DEF Visible
  <1>4. VisibleIsTalk' /\ ConflictsAreMarked'
    BY UnchangedTalk
  <1> QED
    BY <1>2, <1>3, <1>4 DEF DiscussionInv, Talk

LEMMA EndKeeps ==
  ASSUME DiscussionInv, EndAttempt
  PROVE  DiscussionInv'
  <1>1. /\ UNCHANGED <<attempt, chat, excluded, facts, heard, minutes, contract, locked>>
        /\ stage' = "off" /\ loops' = CancelledLoops /\ UNCHANGED closingVars
    BY DEF EndAttempt, chatVars, closingVars
  <1>2. Settled'
    BY <1>1, Parts, UnchangedGrows, SettledStays
  <1> QED
    BY <1>1, <1>2, Parts, ResetKeeps DEF Typed

LEMMA CloseKeeps ==
  ASSUME DiscussionInv, Close
  PROVE  DiscussionInv'
  <1>1. /\ UNCHANGED <<attempt, chat, excluded, facts, heard, locked>>
        /\ stage = "talk" /\ stage' = "closing" /\ loops' = CancelledLoops
        /\ minutes' = Visible /\ contract' = Compiled(facts, ViewOf(Visible))
    BY DEF Close, chatVars
  <1>2. ConfirmedByPeople' /\ ConfirmedRulesAgree'
    BY <1>1, Parts, CompiledIsAgreed
  <1>3. \A s \in Agents : locked'[s] = <<>>
    BY <1>1, Parts DEF NothingIsSettled, Unlocked
  <1>4. CommitmentsAreAgreed' /\ NothingIsSettled'
    BY <1>1, <1>3 DEF CommitmentsAreAgreed, NothingIsSettled
  <1> QED
    BY <1>1, <1>2, <1>4, Parts, ResetKeeps DEF Typed, Settled

\* The rules of the seat's own that bind were agreed.
LEMMA OwnIsAgreed ==
  ASSUME DiscussionInv, NEW s \in Agents, NEW own \in OwnRules(s), NEW r \in own, r.strength = Hard
  PROVE  AgreedOn(r, s)
  <1>1. own # {} /\ own # Fallback(facts, s)
    BY FallbackIsSoft
  <1>2. PICK p \in {q \in Proposals : q.seat = s}, m \in DOMAIN chat :
          own = {Believed(Proposed(p, s, m), s, facts, ViewOf(minutes))}
    BY <1>1 DEF OwnRules
  <1>3. PICK x : x = Proposed(p, s, m)
    OBVIOUS
  <1>4. x = [id |-> x.id, type |-> x.type, seats |-> x.seats, segs |-> x.segs,
             param |-> x.param, strength |-> x.strength, sources |-> x.sources]
    BY <1>3 DEF Proposed
  <1>5. r = Believed(x, s, facts, ViewOf(minutes))
    BY <1>2, <1>3
  <1> QED
    BY <1>4, <1>5, Parts, BelievedIsAgreed

LEMMA LockKeeps ==
  ASSUME DiscussionInv, NEW s \in Agents, Lock(s)
  PROVE  DiscussionInv'
  <1>1. /\ UNCHANGED <<attempt, chat, excluded, guard, facts, loops, minutes, contract, heard>>
        /\ stage = "closing" /\ stage' \in {"closing", "play"}
    BY DEF Lock, chatVars
  <1>2. PICK own \in OwnRules(s) : locked' = [locked EXCEPT ![s] = <<LockedRules(own, contract, s)>>]
    BY DEF Lock
  <1>3. \A r \in own : r.strength = Hard => AgreedOn(r, s)
    BY OwnIsAgreed
  <1>4. locked = [t \in Agents |-> locked[t]]
    BY Parts DEF Typed
  <1>5. /\ locked'[s] = <<LockedRules(own, contract, s)>>
        /\ \A t \in Agents : t # s => locked'[t] = locked[t]
    BY <1>2, <1>4
  <1>6. \A r, t : AgreedOn(r, t) => AgreedOn(r, t)'
    BY <1>1 DEF AgreedOn, Rivals
  <1>7. CommitmentsAreAgreed'
    <2> SUFFICES ASSUME NEW t \in Agents, locked'[t] # <<>>,
                        NEW r \in Commitments(locked'[t][1], t)
                 PROVE  AgreedOn(r, t)'
      BY CommitmentsAgreedNext
    <2>1. CASE t = s
      <3>1. r \in Commitments(LockedRules(own, contract, s), s)
        BY <1>5, <2>1
      <3>2. AgreedOn(r, s)
        BY <1>3, <3>1, Parts, LockedIsAgreed
      <3> QED
        BY <1>6, <2>1, <3>2
    <2>2. CASE t # s
      <3>1. locked[t] # <<>> /\ r \in Commitments(locked[t][1], t)
        BY <1>5, <2>2
      <3>2. AgreedOn(r, t)
        BY <3>1, Parts, CommitmentsAreAgreedOn
      <3> QED
        BY <1>6, <3>2
    <2> QED
      BY <2>1, <2>2
  <1>8. ConfirmedByPeople'
    BY <1>1, Parts DEF ConfirmedByPeople, ByPerson, Backs, Rivals
  <1>9. NothingIsSettled' /\ ConfirmedRulesAgree'
    BY <1>1, Parts DEF NothingIsSettled, ConfirmedRulesAgree
  <1>10. Typed'
    <2>1. locked' = [t \in Agents |-> locked'[t]]
      BY <1>2, <1>4
    <2> QED
      BY <1>1, <2>1, Parts DEF Typed
  <1>11. VisibleIsTalk' /\ ConflictsAreMarked'
    BY <1>1, UnchangedTalk
  <1>12. ShownIsVisible'
    BY <1>1, Parts DEF ShownIsVisible, Visible
  <1> QED
    BY <1>7, <1>8, <1>9, <1>10, <1>11, <1>12 DEF DiscussionInv, Talk, Settled

\* Nothing was said yet.
LEMMA NothingSaid ==
  ASSUME chat' = <<>>, excluded' = {}, facts' = <<>>
  PROVE  /\ chat' \in Seq(Message) /\ facts' \in Seq(Fact) /\ excluded' \subseteq DOMAIN chat'
         /\ VisibleIsTalk' /\ ConflictsAreMarked'
  <1>1. DOMAIN chat' = {} /\ DOMAIN facts' = {}
    BY EmptySeq
  <1>2. chat' \in Seq(Message) /\ facts' \in Seq(Fact)
    BY EmptySeq
  <1> QED
    BY <1>1, <1>2 DEF VisibleIsTalk, ConflictsAreMarked, Visible

LEMMA StartKeeps ==
  ASSUME DiscussionInv, Start
  PROVE  DiscussionInv'
  <1>1. /\ attempt < MaxAttempts /\ attempt' = attempt + 1 /\ stage' = "talk"
        /\ chat' = <<>> /\ excluded' = {} /\ facts' = <<>>
        /\ loops' = [CancelledLoops EXCEPT ![attempt + 1] = NewLoop]
        /\ minutes' = {} /\ contract' = {} /\ locked' = Unlocked /\ heard' = {}
    BY DEF Start
  <1>2. Blank(NewLoop)
    BY SpeakersDomain DEF Blank, NewLoop, Ended, Loop, Places
  <1>3. \A a \in Attempts : loops'[a] = NewLoop \/ loops'[a] = Cancelled(loops[a])
    BY <1>1 DEF CancelledLoops
  <1>4. \A a \in Attempts : Blank(loops'[a])
    BY <1>2, <1>3, Parts, CancelledBlank
  <1>5. loops' \in [Attempts -> Loop]
    <2>1. loops' = [a \in Attempts |-> loops'[a]]
      BY <1>1 DEF CancelledLoops
    <2> QED
      BY <1>4, <2>1 DEF Blank
  <1>6. attempt' \in 0..MaxAttempts
    BY <1>1, Parts, DiscussionAssumption DEF Typed
  <1>7. locked' = [s \in Agents |-> locked'[s]]
    BY <1>1 DEF Unlocked
  <1>8. /\ chat' \in Seq(Message) /\ facts' \in Seq(Fact) /\ excluded' \subseteq DOMAIN chat'
        /\ VisibleIsTalk' /\ ConflictsAreMarked'
    BY <1>1, NothingSaid
  <1>9. Typed'
    BY <1>1, <1>5, <1>6, <1>7, <1>8 DEF Typed
  <1>10. ShownIsVisible'
    <2>1. minutes' \subseteq Visible'
      BY <1>1
    <2> QED
      BY <1>4, <2>1, NothingShown
  <1>11. Settled'
    BY <1>1, NothingSettledYet
  <1> QED
    BY <1>8, <1>9, <1>10, <1>11 DEF DiscussionInv, Talk

LEMMA StutterKeeps ==
  ASSUME DiscussionInv, UNCHANGED <<attempt, stage, chat, excluded, facts, loops, closingVars, heard>>
  PROVE  DiscussionInv'
  <1>1. Typed'
    BY Parts DEF Typed, closingVars
  <1>2. VisibleIsTalk' /\ ConflictsAreMarked'
    BY UnchangedTalk
  <1>3. ShownIsVisible'
    BY Parts DEF ShownIsVisible, Visible, closingVars
  <1>4. Settled'
    BY Parts, UnchangedGrows, SettledStays
  <1> QED
    BY <1>1, <1>2, <1>3, <1>4 DEF DiscussionInv, Talk

-----------------------------------------------------------------------------
(* The invariant. *)

LEMMA InvInitially == Init => DiscussionInv
  <1> SUFFICES ASSUME Init PROVE DiscussionInv
    OBVIOUS
  <1>1. DOMAIN chat = {} /\ DOMAIN facts = {} /\ chat \in Seq(Message) /\ facts \in Seq(Fact)
    BY EmptySeq DEF Init
  <1>2. loops \in [Attempts -> Loop] /\ \A a \in Attempts : loops[a].view = {}
    BY EndedBlank DEF Init, Blank
  <1>3. attempt \in 0..MaxAttempts
    BY DiscussionAssumption DEF Init
  <1>4. locked = [s \in Agents |-> locked[s]] /\ \A s \in Agents : locked[s] = <<>>
    BY DEF Init, Unlocked
  <1>5. Typed
    BY <1>1, <1>2, <1>3, <1>4 DEF Typed, Init
  <1>6. VisibleIsTalk /\ ConflictsAreMarked
    BY <1>1 DEF VisibleIsTalk, ConflictsAreMarked, Visible
  <1>7. ShownIsVisible
    BY <1>2 DEF ShownIsVisible, Init
  <1>8. Settled
    BY <1>4 DEF Settled, NothingIsSettled, ConfirmedByPeople, CommitmentsAreAgreed,
                ConfirmedRulesAgree, Init
  <1> QED
    BY <1>5, <1>6, <1>7, <1>8 DEF DiscussionInv, Talk

LEMMA StepKeeps ==
  ASSUME DiscussionInv, LiveLoops, [Next]_vars
  PROVE  DiscussionInv'
  <1>1. CASE \E a \in Attempts : LoopStep(a)
    BY <1>1, QuietKeeps, AnswerKeeps, CooldownKeeps DEF LoopStep
  <1>2. CASE \E h \in Humans, sort \in Sorts : ChatSend(h, sort)
    BY <1>2, SendKeeps
  <1>3. CASE \E h \in Humans : BackoffEnds(h)
    BY <1>3, StutterKeeps DEF BackoffEnds
  <1>4. CASE Start
    BY <1>4, StartKeeps
  <1>5. CASE Close
    BY <1>5, CloseKeeps
  <1>6. CASE EndAttempt
    BY <1>6, EndKeeps
  <1>7. CASE \E s \in Agents : Lock(s)
    BY <1>7, LockKeeps
  <1>8. CASE UNCHANGED vars
    BY <1>8, StutterKeeps DEF vars, closingVars
  <1> QED
    BY <1>1, <1>2, <1>3, <1>4, <1>5, <1>6, <1>7, <1>8 DEF Next

LEMMA CancelledLoop ==
  ASSUME NEW l
  PROVE  Cancelled(l).at = "ended" \/ Cancelled(l).cancelled
  BY DEF Cancelled, Ended

\* Whoever ends a discussion cancels its coordinator.
LEMMA LiveStep ==
  ASSUME DiscussionInv, LiveLoops, [Next]_vars
  PROVE  LiveLoops'
  <1>1. ASSUME NEW a \in Attempts, LoopStep(a)
        PROVE  LiveLoops'
    <2>1. CASE Returns(a)
      <3>1. \A b \in Attempts : b # a => loops'[b] = loops[b]
        BY <2>1 DEF Returns
      <3>2. loops'[a].at = "ended" /\ attempt' = attempt /\ stage' = stage
        BY <2>1, Parts DEF Returns, Typed, Ended
      <3> QED
        BY <3>1, <3>2 DEF LiveLoops, Talking
    <2>2. CASE ~Returns(a)
      <3>1. /\ Active(a) /\ loops[a].at \in {"quiet", "asking", "cooldown"}
            /\ attempt' = attempt /\ stage' = stage
        BY <1>1, <2>2 DEF LoopStep, QuietEnds, Answer, CooldownEnds
      <3>2. Talking(a)
        BY <3>1, LiveTalks
      <3>3. PICK l : Continues(a, l)
        <4>1. (\E l : Continues(a, l)) \/ NoAnswer(a) \/ Wait(a) \/ Reply(a, "say") \/ Reply(a, "decline")
          BY <1>1, <2>2 DEF LoopStep, QuietEnds, Answer, CooldownEnds
        <4> QED
          BY <4>1 DEF NoAnswer, Wait, Reply
      <3>4. \A b \in Attempts : b # a => loops'[b] = loops[b]
        BY <3>3, Parts DEF Continues, Typed
      <3> QED
        BY <3>1, <3>2, <3>4 DEF LiveLoops, Talking
    <2> QED
      BY <2>1, <2>2
  <1>2. ASSUME NEW h \in Humans, NEW sort \in Sorts, ChatSend(h, sort)
        PROVE  LiveLoops'
    <2>1. attempt' = attempt /\ stage' = stage
      BY <1>2, SendEither
    <2>2. loops' = loops \/ (stage = "talk" /\ loops' = [loops EXCEPT ![attempt] = Notified(@)])
      BY <1>2, SendEither DEF Stopped, PassesGuard
    <2>3. \A b \in Attempts : loops'[b] = loops[b] \/ Talking(b)
      BY <2>2, Parts DEF Typed, Talking
    <2> QED
      BY <2>1, <2>3 DEF LiveLoops, Talking
  <1>3. CASE Close \/ EndAttempt
    <2>1. \A b \in Attempts : loops'[b] = Cancelled(loops[b])
      BY <1>3 DEF Close, EndAttempt, CancelledLoops
    <2> QED
      BY <2>1, CancelledLoop DEF LiveLoops
  <1>4. CASE Start
    <2>1. /\ attempt' = attempt + 1 /\ stage' = "talk"
          /\ loops' = [CancelledLoops EXCEPT ![attempt + 1] = NewLoop]
      BY <1>4 DEF Start
    <2>2. \A b \in Attempts : b # attempt' => loops'[b] = Cancelled(loops[b])
      BY <2>1 DEF CancelledLoops
    <2> QED
      BY <2>1, <2>2, CancelledLoop DEF LiveLoops, Talking
  <1>5. CASE \E s \in Agents : Lock(s)
    <2>1. stage = "closing" /\ loops' = loops
      BY <1>5 DEF Lock
    <2> QED
      BY <2>1 DEF LiveLoops, Talking
  <1>6. CASE (\E h \in Humans : BackoffEnds(h)) \/ UNCHANGED vars
    BY <1>6 DEF BackoffEnds, vars, LiveLoops, Talking
  <1> QED
    BY <1>1, <1>2, <1>3, <1>4, <1>5, <1>6 DEF Next

\* The parts of the invariant hold together in every state of a discussion.
THEOREM DiscussionInvariant == Spec => [](DiscussionInv /\ LiveLoops)
  <1>1. DiscussionInv /\ LiveLoops /\ [Next]_vars => (DiscussionInv /\ LiveLoops)'
    BY StepKeeps, LiveStep
  <1>2. Init => LiveLoops
    BY DEF Init, LiveLoops, Ended
  <1> QED
    BY <1>1, <1>2, InvInitially, PTL DEF Spec

-----------------------------------------------------------------------------
(* What models see, and what agents are held to. *)

\* What an agent is shown of the discussion (buildDiscussionView), when it
\* speaks and when its strategy is compiled, holds no message that the guard
\* stopped or that a model called off topic, and none of the agents' excuses.
THEOREM ModelsSeeOnlyTheTalk == Spec => []ModelsSeeTheTalkOnly
  <1>1. DiscussionInv => ModelsSeeTheTalkOnly
    <2> SUFFICES ASSUME DiscussionInv, NEW m \in minutes \cup UNION {loops[a].view : a \in Attempts}
                 PROVE  chat[m].sort \in {"talk", "say"} /\ ~Refused(m)
      BY DEF ModelsSeeTheTalkOnly
    <2>1. m \in Visible
      BY Parts DEF ShownIsVisible
    <2> QED
      BY <2>1, Parts DEF VisibleIsTalk
  <1> QED
    BY <1>1, DiscussionInvariant, PTL

\* Behind whatever binds an agent when its strategy is locked
\* (finalizeDiscussion, lockStrategy) stands a message of somebody else that
\* models may see and an uncontradicted fact, whatever the models extracted
\* and proposed; and the contract confirms one assignment, with the same
\* parameters, for one set of seats.
THEOREM ContractsAreAgreed == Spec => []ContractIsAgreed
  <1>1. DiscussionInv => ContractIsAgreed
    <2> SUFFICES ASSUME DiscussionInv PROVE ContractIsAgreed
      OBVIOUS
    <2>1. \A a \in Attempts : loops[a].at \in Places
      BY Parts, LoopFields DEF Typed
    <2>2. minutes \subseteq DOMAIN chat
      BY Parts, ChatDomain
    <2>3. TypeOK
      BY <2>1, <2>2, Parts DEF TypeOK, Typed, Places
    <2> QED
      BY <2>3, Parts DEF ContractIsAgreed
  <1> QED
    BY <1>1, DiscussionInvariant, PTL

-----------------------------------------------------------------------------
(* Who speaks, and about what. *)

\* A model that answers while its discussion is on either says nothing or
\* says one thing about the message that is in focus.
Says(a) ==
  \E focus \in Visible, sort \in {"say", "decline"} : InFocus(focus) /\ Speaks(a, focus, sort)

LEMMA AnswersSay ==
  ASSUME DiscussionInv, LiveLoops, NEW a \in Attempts, Answer(a)
  PROVE  \/ chat' = chat
         \/ /\ Talking(a) /\ \E l : Continues(a, l)
            /\ (\E i \in DOMAIN Speakers : Notice(i)) \/ Says(a)
  <1>1. CASE Returns(a)
    BY <1>1 DEF Returns, chatVars
  <1>0. Active(a) => Talking(a)
    BY LiveTalks DEF Answer
  <1>2. CASE Active(a) /\ NoAnswer(a)
    <2>1. loops[a].speaker \in DOMAIN Speakers
      BY Parts, LoopFields DEF Typed
    <2>2. \E l : Continues(a, l)
      BY <1>2 DEF NoAnswer
    <2>3. Notice(loops[a].speaker) \/ chat' = chat
      BY <1>2 DEF NoAnswer, chatVars
    <2> QED
      BY <1>0, <1>2, <2>1, <2>2, <2>3
  <1>3. CASE Wait(a)
    BY <1>3 DEF Wait, chatVars
  <1>4. ASSUME Active(a), NEW sort \in {"say", "decline"}, Reply(a, sort)
        PROVE  chat' = chat \/ (Talking(a) /\ (\E l : Continues(a, l)) /\ Says(a))
    <2>1. PICK focus : focus = LatestOf(loops[a].view)
      OBVIOUS
    <2>2. CASE InFocus(focus)
      <3>1. focus # 0 /\ Speaks(a, focus, sort) /\ \E l : Continues(a, l)
        BY <1>4, <2>1, <2>2 DEF Reply
      <3>2. focus \in Visible
        BY <2>2, <3>1, FocusIsSeen
      <3> QED
        BY <1>0, <1>4, <2>2, <3>1, <3>2 DEF Says
    <2>3. CASE ~InFocus(focus)
      BY <1>4, <2>1, <2>3 DEF Reply, chatVars
    <2> QED
      BY <2>2, <2>3
  <1> QED
    BY <1>1, <1>2, <1>3, <1>4 DEF Answer

\* Nobody else adds to the chat but people.
LEMMA WhoWrites ==
  ASSUME DiscussionInv, Next
  PROVE  \/ chat' = chat \/ chat' = <<>>
         \/ \E a \in Attempts : Answer(a)
         \/ \E h \in Humans, sort \in Sorts : ChatSend(h, sort)
  <1>1. ASSUME NEW a \in Attempts, LoopStep(a)
        PROVE  chat' = chat \/ Answer(a)
    BY <1>1 DEF LoopStep, QuietEnds, CooldownEnds, Returns, chatVars
  <1> QED
    BY <1>1 DEF Next, BackoffEnds, Start, Close, EndAttempt, Lock, chatVars

\* An agent's words answer the latest message of people that got past the
\* guard (focusMessageId is compared again when the answer is there), however
\* long its model took.
THEOREM AgentsAnswerTheLatest == Spec => AnswersTheLatest
  <1>1. ASSUME DiscussionInv, LiveLoops, Next, NEW m \in DOMAIN chat' \ DOMAIN chat,
               chat'[m].sort \in {"say", "decline"}, chat # <<>>,
               NEW k \in DOMAIN chat, ByPerson(k), k \notin excluded
        PROVE  k <= chat'[m].about
    <2>1. CASE chat' = chat \/ chat' = <<>>
      <3>1. DOMAIN chat' \ DOMAIN chat = {}
        BY <2>1, EmptySeq
      <3> QED
        BY <1>1, <3>1
    <2>2. CASE \E a \in Attempts : Answer(a)
      <3>1. PICK a \in Attempts : Answer(a)
        BY <2>2
      <3>2. ASSUME NEW i \in DOMAIN Speakers, Notice(i)
            PROVE  FALSE
        <4>1. PICK w \in Message : w = Written(Speakers[i], "notice", 0) /\ w.sort = "notice"
          BY WrittenIsMessage DEF AllSorts, Agents
        <4>2. chat'[m] = w
          BY <1>1, <3>2, <4>1, Parts, AppendGrows DEF Notice
        <4> QED
          BY <1>1, <4>1, <4>2
      <3>3. CASE Says(a)
        <4>1. PICK focus \in Visible, sort \in {"say", "decline"} :
                InFocus(focus) /\ Speaks(a, focus, sort)
          BY <3>3 DEF Says
        <4>2. loops[a].speaker \in DOMAIN Speakers /\ focus \in Nat /\ Visible \in SUBSET DOMAIN chat
          <5>1. loops[a] \in Loop
            BY <1>1, Parts DEF Typed
          <5>2. Visible \subseteq DOMAIN chat /\ DOMAIN chat \subseteq Nat
            BY <1>1, Parts, ChatDomain
          <5> QED
            BY <5>1, <5>2, LoopFields
        <4>3. Speakers[loops[a].speaker] \in Humans \cup Agents /\ sort \in AllSorts
          BY <4>2 DEF Agents, AllSorts
        <4>4. PICK w \in Message : w = Written(Speakers[loops[a].speaker], sort, focus) /\ w.about = focus
          BY <4>2, <4>3, WrittenIsMessage
        <4>5. chat'[m] = w
          BY <1>1, <4>1, <4>4, Parts, AppendGrows DEF Speaks
        <4>6. k \in Visible /\ LatestOf(Visible) = focus
          BY <1>1, <4>1 DEF Visible, InFocus
        <4>7. k <= focus
          BY <1>1, <4>2, <4>6, Parts, LatestPerson
        <4> QED
          BY <4>4, <4>5, <4>7
      <3> QED
        BY <1>1, <3>1, <3>2, <3>3, AnswersSay
    <2>3. CASE \E h \in Humans, sort \in Sorts : ChatSend(h, sort)
      <3>1. PICK h \in Humans, sort \in Sorts : ChatSend(h, sort)
        BY <2>3
      <3>2. CASE \E answered \in BOOLEAN : Stopped(h, sort, answered)
        BY <1>1, <3>2, Parts, StoppedAdds
      <3>3. CASE sort = "talk" /\ PassesGuard(h, sort)
        <4>1. PICK w \in Message : w = Written(h, sort, 0) /\ w.sort = sort
          BY PersonWrites
        <4>2. chat'[m] = w
          BY <1>1, <3>3, <4>1, Parts, AppendGrows DEF PassesGuard
        <4> QED
          BY <1>1, <3>3, <4>1, <4>2
      <3> QED
        BY <3>1, <3>2, <3>3, SendEither
    <2> QED
      BY <1>1, <2>1, <2>2, <2>3, WhoWrites
  <1>2. DiscussionInv /\ LiveLoops /\ [Next]_vars =>
          [\A m \in DOMAIN chat' \ DOMAIN chat :
             chat'[m].sort \in {"say", "decline"} /\ chat # <<>> =>
               \A k \in DOMAIN chat : ByPerson(k) /\ k \notin excluded => k <= chat'[m].about]_vars
    BY <1>1
  <1> QED
    BY <1>2, DiscussionInvariant, PTL DEF Spec, AnswersTheLatest

\* A request that is answered adds to the chat only while people talk in its
\* own attempt, neither into the strategies that are being settled, when phase
\* and attempt are the same still, nor into the next attempt: whatever ends a
\* discussion cancels its coordinator, and isActive looks after every await.
THEOREM AgentsSpeakInTheirOwn == Spec => SpeaksInItsOwnDiscussion
  <1>1. ASSUME DiscussionInv, LiveLoops, Next, NEW a \in Attempts, loops[a].at = "asking",
               loops'[a].at # "asking", Len(chat') > Len(chat)
        PROVE  a = attempt /\ stage = "talk"
    <2>1. CASE chat' = chat \/ chat' = <<>>
      <3>1. Len(chat) \in Nat /\ Len(chat') \in Nat /\ Len(chat') <= Len(chat)
        BY <1>1, <2>1, Parts, ChatDomain, EmptySeq
      <3> QED
        BY <1>1, <3>1
    <2>2. CASE chat' # chat /\ \E b \in Attempts : Answer(b)
      <3>1. PICK b \in Attempts : Answer(b)
        BY <2>2
      <3>2. Talking(b) /\ \E l : Continues(b, l)
        BY <1>1, <2>2, <3>1, AnswersSay
      <3>3. a # b => loops'[a] = loops[a]
        BY <1>1, <3>2, Parts DEF Typed, Continues
      <3> QED
        BY <1>1, <3>2, <3>3 DEF Talking
    <2>3. CASE \E h \in Humans, sort \in Sorts : ChatSend(h, sort)
      <3>1. PICK h \in Humans, sort \in Sorts : ChatSend(h, sort)
        BY <2>3
      <3>2. loops'[a] = loops[a] \/ PassesGuard(h, sort)
        BY <3>1, SendEither DEF Stopped
      <3> QED
        BY <1>1, <3>2, Parts, NotifiedLoops
    <2> QED
      BY <1>1, <2>1, <2>2, <2>3, WhoWrites
  <1>2. DiscussionInv /\ LiveLoops /\ [Next]_vars =>
          [\A a \in Attempts :
             loops[a].at = "asking" /\ loops'[a].at # "asking" /\ Len(chat') > Len(chat) =>
               a = attempt /\ stage = "talk"]_vars
    BY <1>1
  <1> QED
    BY <1>2, DiscussionInvariant, PTL DEF Spec, SpeaksInItsOwnDiscussion
=============================================================================
