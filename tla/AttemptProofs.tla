---------------------------- MODULE AttemptProofs ----------------------------
(***************************************************************************)
(* Proofs about the life of an attempt, for any number of agents, levels,  *)
(* kept briefs and attempts: whatever buttons, timers and late answers do, *)
(* the cards are dealt with the strategies of this very attempt, by a      *)
(* transition that an event of this attempt started, and a retry inherits  *)
(* what was learnt from its own defeats.                                   *)
(***************************************************************************)
EXTENDS Attempt, TLAPS

-----------------------------------------------------------------------------
(* The inductive invariant. *)

Own(a) == [attempt |-> a, from |-> a, cut |-> FALSE]

\* TypeOK, with the function that the briefs are.
Typed == TypeOK /\ briefs \in [AttemptIds -> Seq(Brief)]

Open == phase \in {"discussion", "placing"}

\* The attempt in play is the last one, and the agents' memory is about it.
LastAttempt ==
  /\ Len(log) <= MaxAttempts
  /\ attempt \in {0, Len(log)}
  /\ InGame => /\ attempt = Len(log) /\ attempt >= 1
               /\ level \in Levels
               /\ memory.attempt = attempt /\ memory.run \in AttemptIds
  /\ Open => run.id \in AttemptIds /\ log[attempt].outcome = "open" /\ attempt \notin finalized
  /\ InGame /\ log[attempt].outcome # "pass" => run.id = memory.run
  /\ run.id <= Len(log)
  /\ memory.attempt <= Len(log) /\ memory.run <= memory.attempt
  /\ memory.inherited # 0 => memory.inherited < memory.attempt
  /\ finalized \subseteq 1..Len(log)

\* A run is of one level, and goes on until that level is cleared.
RunOfOneLevel ==
  run.id # 0 => \A a \in run.id..Len(log) : log[a].level = run.level /\ log[a].outcome # "pass"

\* A brief is of a defeat since its run began.
BriefsOfDefeats ==
  \A r \in AttemptIds : \A i \in DOMAIN briefs[r] :
    /\ briefs[r][i].source \in r..Len(log)
    /\ log[briefs[r][i].source].outcome = "fail"

\* The room's entry is the only transition of the attempt that is discussed.
OneTransition ==
  /\ \A o, p \in owners : o.id = p.id => o = p
  /\ \A o \in owners : o.attempt <= Len(log)
  /\ phase = "discussion" => \A o \in owners : o.attempt = attempt => entry = o
  /\ \A c \in compiles, o \in owners : c.owner = o.id => c.attempt = o.attempt

\* Its models are still asked with the tokens of now, and no seat is left out.
SeatsAsked ==
  phase = "discussion" /\ entry.attempt = attempt =>
    /\ \A c \in compiles : c.owner = entry.id =>
         ~c.aborted /\ c.attempt = attempt /\ c.run = run.id /\ c.version = version
    /\ \A s \in Agents : \/ locked[s] = Own(attempt)
                         \/ \E c \in compiles : c.owner = entry.id /\ c.seat = s

AttemptInv ==
  /\ Typed /\ LastAttempt /\ RunOfOneLevel /\ BriefsOfDefeats /\ BriefOfSameLevel
  /\ ResultIsReviewed /\ OneTransition /\ SeatsAsked /\ OwnStrategies

-----------------------------------------------------------------------------
(* Fields, sequences and briefs. *)

Outcome == {"open", "pass", "fail"}
Entry == [level : Levels, outcome : Outcome]
Compile == [owner : 1..begins, seat : Agents, attempt : AttemptIds, run : AttemptIds,
            version : 0..version, aborted : BOOLEAN]

LEMMA Fields ==
  ASSUME TypeOK
  PROVE  /\ attempt \in Nat /\ level \in Nat /\ version \in Nat /\ timer \in Nat /\ begins \in Nat
         /\ run.id \in 0..MaxAttempts /\ run.level \in 0..LastLevel
         /\ memory.attempt \in 0..MaxAttempts /\ memory.run \in 0..MaxAttempts
         /\ memory.level \in 0..LastLevel /\ memory.inherited \in 0..MaxAttempts
         /\ shown.finalizing \in BOOLEAN /\ shown.review \in 0..MaxAttempts
         /\ log \in Seq(Entry) /\ Len(log) \in Nat
         /\ MaxAttempts \in Nat /\ LastLevel \in Nat \ {0} /\ KeptBriefs \in Nat \ {0}
  BY LevelAssumption, BriefAssumption, AttemptAssumption DEF TypeOK, Entry, Outcome

LEMMA Ranges ==
  /\ AttemptIds \subseteq 0..MaxAttempts /\ AttemptIds \subseteq Nat \ {0}
  /\ Levels \subseteq 0..LastLevel /\ Levels \subseteq Nat \ {0}
  BY LevelAssumption, AttemptAssumption DEF AttemptIds, Levels

LEMMA OwnerFields ==
  ASSUME TypeOK, NEW o \in owners
  PROVE  o.id \in 1..begins /\ o.attempt \in AttemptIds
  BY DEF TypeOK

LEMMA CompileFields ==
  ASSUME TypeOK, NEW c \in compiles
  PROVE  /\ c \in Compile
         /\ c.owner \in 1..begins /\ c.seat \in Agents
         /\ c.attempt \in AttemptIds /\ c.run \in AttemptIds /\ c.version \in 0..version
         /\ c.aborted \in BOOLEAN
         /\ \E o \in owners : o.id = c.owner
  BY OwnerFields DEF TypeOK, Compile

LEMMA AbortedFields ==
  ASSUME TypeOK, NEW d \in Aborted
  PROVE  \E c \in compiles :
           /\ d = [c EXCEPT !.aborted = TRUE]
           /\ d \in Compile
           /\ d.owner = c.owner /\ d.seat = c.seat /\ d.attempt = c.attempt
           /\ d.run = c.run /\ d.version = c.version /\ d.aborted = TRUE
  BY CompileFields DEF Aborted, Compile

LEMMA AbortedTyped ==
  ASSUME TypeOK, NEW v \in Nat, version <= v
  PROVE  Aborted \subseteq [owner : {o.id : o \in owners}, seat : Agents, attempt : AttemptIds,
                           run : AttemptIds, version : 0..v, aborted : BOOLEAN]
  <1> SUFFICES ASSUME NEW d \in Aborted
               PROVE  d \in [owner : {o.id : o \in owners}, seat : Agents, attempt : AttemptIds,
                             run : AttemptIds, version : 0..v, aborted : BOOLEAN]
    OBVIOUS
  <1>1. PICK c \in compiles : d \in Compile /\ d.owner = c.owner /\ d.version = c.version
    BY AbortedFields
  <1>2. d.owner \in {o.id : o \in owners} /\ d.version \in 0..v
    <2>1. d.version \in 0..version /\ version \in Nat
      BY <1>1, CompileFields, Fields
    <2>2. \E o \in owners : o.id = d.owner
      BY <1>1, CompileFields
    <2> QED
      BY <2>1, <2>2
  <1> QED
    BY <1>1, <1>2 DEF Compile

LEMMA Appended ==
  ASSUME NEW l \in Levels, TypeOK, log' = Append(log, [level |-> l, outcome |-> "open"])
  PROVE  /\ log' \in Seq(Entry) /\ Len(log') = Len(log) + 1
         /\ \A i \in 1..Len(log) : log'[i] = log[i]
         /\ log'[Len(log) + 1].level = l /\ log'[Len(log) + 1].outcome = "open"
  BY Fields DEF Entry, Outcome

LEMMA Closed ==
  ASSUME TypeOK, attempt \in 1..Len(log), NEW outcome \in Outcome,
         log' = [log EXCEPT ![attempt].outcome = outcome]
  PROVE  /\ log' \in Seq(Entry) /\ Len(log') = Len(log)
         /\ \A i \in 1..Len(log) : log'[i].level = log[i].level
         /\ \A i \in 1..Len(log) : i # attempt => log'[i] = log[i]
         /\ log'[attempt].outcome = outcome
  <1>1. log \in Seq(Entry) /\ log[attempt] \in Entry
    BY Fields
  <1>2. [log[attempt] EXCEPT !.outcome = outcome] \in Entry
    BY <1>1 DEF Entry
  <1>3. log' = [log EXCEPT ![attempt] = [log[attempt] EXCEPT !.outcome = outcome]]
    OBVIOUS
  <1>4. /\ [log[attempt] EXCEPT !.outcome = outcome].level = log[attempt].level
        /\ [log[attempt] EXCEPT !.outcome = outcome].outcome = outcome
    BY <1>1 DEF Entry
  <1> QED
    BY <1>1, <1>2, <1>3, <1>4

LEMMA Briefs ==
  ASSUME Typed, NEW r \in AttemptIds
  PROVE  /\ briefs[r] \in Seq(Brief) /\ Len(briefs[r]) \in 0..KeptBriefs
         /\ \A i \in DOMAIN briefs[r] :
              /\ i \in 1..Len(briefs[r])
              /\ briefs[r][i] \in Brief
              /\ briefs[r][i].source \in AttemptIds /\ briefs[r][i].taught \in BOOLEAN
  <1>1. briefs[r] \in Seq(Brief) /\ Len(briefs[r]) \in 0..KeptBriefs
    BY Fields DEF Typed, TypeOK
  <1>2. ASSUME NEW i \in DOMAIN briefs[r]
        PROVE  i \in 1..Len(briefs[r]) /\ briefs[r][i] \in Brief
    BY <1>1
  <1> QED
    BY <1>1, <1>2 DEF Brief

LEMMA LastBriefIs ==
  ASSUME Typed, NEW r \in AttemptIds
  PROVE  \/ briefs[r] = <<>> /\ LastBrief(r) = 0
         \/ \E i \in DOMAIN briefs[r] :
              briefs[r] # <<>> /\ LastBrief(r) = briefs[r][i].source /\ LastBrief(r) \in AttemptIds
  <1>1. CASE briefs[r] = <<>>
    BY <1>1 DEF LastBrief
  <1>2. CASE briefs[r] # <<>>
    <2>1. Len(briefs[r]) \in DOMAIN briefs[r]
      BY <1>2, Briefs
    <2> QED
      BY <1>2, <2>1, Briefs DEF LastBrief
  <1> QED
    BY <1>1, <1>2

-----------------------------------------------------------------------------
(* One lemma for each kind of step. *)

LEMMA StartStep ==
  ASSUME AttemptInv, NEW l \in Levels, StartDiscussion(l)
  PROVE  AttemptInv'
  <1> DEFINE a == Len(log) + 1
             r == RunFor(l, a)
  <1>1. /\ a <= MaxAttempts /\ phase' = "discussion" /\ attempt' = a /\ run' = r /\ level' = l
        /\ version' = version + 1 /\ timer' = version + 1 /\ shown' = Quiet
        /\ compiles' = Aborted
        /\ memory' = [attempt |-> a, run |-> r.id, level |-> l, inherited |-> LastBrief(r.id)]
        /\ locked' = NoStrategies
        /\ owners' = owners /\ entry' = entry /\ begins' = begins /\ briefs' = briefs
        /\ finalized' = finalized /\ lessons' = lessons
    BY DEF StartDiscussion
  <1>2. log' = Append(log, [level |-> l, outcome |-> "open"])
    BY DEF StartDiscussion
  <1>3. TypeOK /\ Typed /\ LastAttempt
    BY DEF AttemptInv, Typed
  <1>4. /\ log' \in Seq(Entry) /\ Len(log') = a
        /\ \A i \in 1..Len(log) : log'[i] = log[i]
        /\ log'[a].level = l /\ log'[a].outcome = "open"
    BY <1>2, <1>3, Appended
  <1>5. a \in AttemptIds /\ Len(log) \in Nat /\ a = Len(log) + 1
    BY <1>1, <1>3, Fields DEF AttemptIds
  <1>r. r = RunFor(l, a)
    OBVIOUS
  <1> HIDE DEF a, r
  <1>6. /\ r \in [id : AttemptIds, level : Levels] /\ r.id \in 1..a /\ r.level = l
        /\ \/ r.id = a
           \/ r = run /\ run.id # 0 /\ run.level = l /\ r.id <= Len(log)
    <2>1. CASE run.id = 0 \/ run.level # l
      BY <1>r, <1>5, <2>1, Ranges DEF RunFor
    <2>2. CASE ~(run.id = 0 \/ run.level # l)
      <3>1. run \in [id : 0..MaxAttempts, level : 0..LastLevel]
        BY <1>3 DEF TypeOK
      <3>2. run.id \in AttemptIds /\ run.id <= Len(log) /\ run.level \in Levels
        BY <2>2, <1>3, Fields DEF LastAttempt, AttemptIds, Levels
      <3>3. r = run
        BY <1>r, <2>2 DEF RunFor
      <3>4. run \in [id : AttemptIds, level : Levels]
        BY <3>1, <3>2
      <3> QED
        <4>1. run.id \in 1..a
          <5>1. run.id \in Nat \ {0} /\ run.id <= Len(log)
            BY <3>2, Ranges
          <5>2. a = Len(log) + 1 /\ Len(log) \in Nat
            BY <1>5
          <5> QED
            BY <5>1, <5>2
        <4> QED
          BY <2>2, <3>2, <3>3, <3>4, <4>1
    <2> QED
      BY <2>1, <2>2
  <1>7. LastBrief(r.id) \in 0..MaxAttempts
    <2>1. r.id \in AttemptIds
      BY <1>6
    <2>2. LastBrief(r.id) = 0 \/ LastBrief(r.id) \in AttemptIds
      BY <1>3, <2>1, LastBriefIs
    <2> QED
      BY <1>3, <2>2, Fields DEF AttemptIds
  <1>8. LastBrief(r.id) # 0 =>
          /\ r = run /\ run.id # 0 /\ run.level = l /\ LastBrief(r.id) \in run.id..Len(log)
          /\ log[LastBrief(r.id)].outcome = "fail"
    <2>1. SUFFICES ASSUME LastBrief(r.id) # 0
                   PROVE  /\ r = run /\ run.id # 0 /\ run.level = l
                          /\ LastBrief(r.id) \in run.id..Len(log)
                          /\ log[LastBrief(r.id)].outcome = "fail"
      OBVIOUS
    <2>2. r.id \in AttemptIds
      BY <1>6
    <2>3. PICK i \in DOMAIN briefs[r.id] : LastBrief(r.id) = briefs[r.id][i].source
      BY <1>3, <2>1, <2>2, LastBriefIs
    <2>4. LastBrief(r.id) \in r.id..Len(log) /\ log[LastBrief(r.id)].outcome = "fail"
      BY <2>2, <2>3 DEF BriefsOfDefeats, AttemptInv
    <2>5. r.id # a
      BY <1>5, <2>4
    <2> QED
      BY <1>6, <2>4, <2>5
  <1>9. Typed'
    <2>1. phase' \in {"lobby", "discussion", "placing", "reveal", "result"} /\ attempt' \in 0..MaxAttempts
      BY <1>1, <1>5 DEF AttemptIds
    <2>2. run' \in [id : 0..MaxAttempts, level : 0..LastLevel] /\ level' \in 0..LastLevel
      <3>1. AttemptIds \subseteq 0..MaxAttempts /\ Levels \subseteq 0..LastLevel
        BY Ranges
      <3>2. r \in [id : 0..MaxAttempts, level : 0..LastLevel]
        BY <1>6, <3>1
      <3> QED
        BY <1>1, <3>1, <3>2
    <2>3. version' \in Nat /\ timer' \in 0..version'
      <3>1. version \in Nat
        BY <1>3, Fields
      <3> QED
        BY <1>1, <3>1
    <2>4. shown' \in [finalizing : BOOLEAN, review : 0..MaxAttempts]
      BY <1>1, <1>3, Fields DEF Quiet
    <2>5. compiles' \subseteq [owner : {o.id : o \in owners'}, seat : Agents, attempt : AttemptIds,
                         run : AttemptIds, version : 0..version', aborted : BOOLEAN]
      <3>1. version' = version + 1 /\ version \in Nat
        BY <1>1, <1>3, Fields
      <3> QED
        BY <1>1, <1>3, <3>1, AbortedTyped
    <2>6. memory' \in [attempt : 0..MaxAttempts, run : 0..MaxAttempts, level : 0..LastLevel,
                       inherited : 0..MaxAttempts]
      <3>1. AttemptIds \subseteq 0..MaxAttempts /\ Levels \subseteq 0..LastLevel
        BY Ranges
      <3>2. a \in 0..MaxAttempts /\ r.id \in 0..MaxAttempts /\ l \in 0..LastLevel
        BY <1>5, <1>6, <3>1
      <3> QED
        BY <1>1, <1>7, <3>2
    <2>7. locked' \in [Agents -> [attempt : 0..MaxAttempts, from : 0..MaxAttempts, cut : BOOLEAN]]
      BY <1>1, <1>3, Fields DEF NoStrategies, NoStrategy
    <2>8. lessons' \subseteq [attempt : AttemptIds, version : 1..version']
      BY <1>1, <1>3, Fields DEF TypeOK
    <2>9. /\ owners' \subseteq [id : 1..begins', attempt : AttemptIds] /\ begins' \in Nat
          /\ entry' \in owners' \cup {NoEntry} /\ finalized' \subseteq AttemptIds
          /\ briefs' \in [AttemptIds -> Seq(Brief)]
          /\ \A s \in AttemptIds : briefs'[s] \in Seq(Brief) /\ Len(briefs'[s]) <= KeptBriefs
      BY <1>1, <1>3 DEF Typed, TypeOK
    <2>10. log' \in Seq([level : Levels, outcome : {"open", "pass", "fail"}])
      BY <1>4 DEF Entry, Outcome
    <2> QED
      BY <2>1, <2>2, <2>3, <2>4, <2>5, <2>6, <2>7, <2>8, <2>9, <2>10, Zenon DEF Typed, TypeOK
  <1>10. LastAttempt'
    <2>1. /\ memory'.attempt = a /\ memory'.run = r.id /\ memory'.inherited = LastBrief(r.id)
          /\ run'.id = r.id /\ r.id \in AttemptIds /\ r.id \in 1..a /\ a \in Nat
      BY <1>1, <1>5, <1>6
    <2>2. LastBrief(r.id) # 0 => LastBrief(r.id) < a
      <3>1. run.id \in Nat
        BY <1>3, Fields
      <3> QED
        BY <1>5, <1>8, <3>1
    <2>3. a \notin finalized /\ finalized \subseteq 1..Len(log')
      BY <1>3, <1>4, <1>5 DEF LastAttempt
    <2> QED
      BY <1>1, <1>4, <2>1, <2>2, <2>3 DEF LastAttempt, InGame, Open
  <1>11. RunOfOneLevel'
    <2>1. ASSUME NEW x \in r.id..a PROVE log'[x].level = l /\ log'[x].outcome # "pass"
      <3>1. CASE x = a
        BY <1>4, <3>1
      <3>2. CASE x # a
        <4>1. x \in r.id..Len(log) /\ x \in 1..Len(log)
          BY <1>5, <1>6, <3>2
        <4>2. r = run /\ run.id # 0 /\ run.level = l
          BY <1>5, <1>6, <4>1
        <4> QED
          BY <1>4, <4>1, <4>2 DEF RunOfOneLevel, AttemptInv
      <3> QED
        BY <3>1, <3>2
    <2> QED
      BY <1>1, <1>4, <1>6, <2>1 DEF RunOfOneLevel
  <1>12. BriefsOfDefeats'
    BY <1>1, <1>4, <1>5 DEF BriefsOfDefeats, AttemptIds, AttemptInv
  <1>13. BriefOfSameLevel'
    <2>1. memory'.inherited = LastBrief(r.id) /\ memory'.attempt = a /\ memory'.level = l
      BY <1>1
    <2>2. SUFFICES ASSUME LastBrief(r.id) # 0
                   PROVE  /\ log'[LastBrief(r.id)] = [level |-> l, outcome |-> "fail"]
                          /\ \A x \in LastBrief(r.id)..(a - 1) :
                               log'[x].level = l /\ log'[x].outcome # "pass"
      BY <2>1 DEF BriefOfSameLevel
    <2>3. LastBrief(r.id) \in run.id..Len(log) /\ run.id \in 1..MaxAttempts
      BY <1>3, <1>8, <2>2, Fields
    <2>4. \A x \in LastBrief(r.id)..(a - 1) : log'[x].level = l /\ log'[x].outcome # "pass"
      BY <1>4, <1>5, <1>8, <2>2, <2>3 DEF RunOfOneLevel, AttemptInv
    <2>5. log'[LastBrief(r.id)] \in Entry
      BY <1>4, <1>5, <2>3
    <2>6. log'[LastBrief(r.id)].level = l /\ log'[LastBrief(r.id)].outcome = "fail"
      BY <1>4, <1>5, <1>8, <2>2, <2>3, <2>4
    <2> QED
      BY <2>4, <2>5, <2>6 DEF Entry
  <1>14. ResultIsReviewed' /\ OwnStrategies'
    BY <1>1 DEF ResultIsReviewed, OwnStrategies
  <1>15. OneTransition'
    <2>1. \A o \in owners : o.attempt # a
      BY <1>3, <1>5, OwnerFields DEF AttemptInv, OneTransition, AttemptIds
    <2>2. ASSUME NEW d \in Aborted, NEW o \in owners, d.owner = o.id PROVE d.attempt = o.attempt
      <3>1. PICK c \in compiles : d.owner = c.owner /\ d.attempt = c.attempt
        BY <1>3, AbortedFields
      <3> QED
        BY <2>2, <3>1 DEF AttemptInv, OneTransition
    <2>3. \A o \in owners : o.attempt <= a
      BY <1>3, <1>5, OwnerFields DEF AttemptInv, OneTransition, AttemptIds
    <2> QED
      BY <1>1, <1>4, <2>1, <2>2, <2>3 DEF AttemptInv, OneTransition
  <1>16. SeatsAsked'
    <2>1. entry.attempt # a
      <3>1. CASE entry = NoEntry
        BY <1>5, <3>1 DEF NoEntry
      <3>2. CASE entry \in owners
        BY <1>3, <1>5, <3>2, OwnerFields DEF AttemptInv, OneTransition, AttemptIds
      <3> QED
        BY <1>3, <3>1, <3>2 DEF TypeOK
    <2> QED
      BY <1>1, <2>1 DEF SeatsAsked
  <1> QED
    BY <1>9, <1>10, <1>11, <1>12, <1>13, <1>14, <1>15, <1>16 DEF AttemptInv

LEMMA OnlyTheTimer ==
  ASSUME AttemptInv, timer' \in 0..version,
         UNCHANGED <<phase, attempt, run, level, version, shown, transitionVars, memoryVars, log>>
  PROVE  AttemptInv'
  <1>1. Typed'
    BY DEF AttemptInv, Typed, TypeOK, transitionVars, memoryVars
  <1>2. LastAttempt' /\ RunOfOneLevel' /\ BriefsOfDefeats' /\ BriefOfSameLevel' /\ OneTransition'
    BY DEF AttemptInv, transitionVars, memoryVars, LastAttempt, InGame, Open, RunOfOneLevel,
           BriefsOfDefeats, BriefOfSameLevel, OneTransition
  <1>3. ResultIsReviewed' /\ SeatsAsked' /\ OwnStrategies'
    BY DEF AttemptInv, transitionVars, memoryVars, ResultIsReviewed, LastBrief, SeatsAsked,
           OwnStrategies
  <1> QED
    BY <1>1, <1>2, <1>3 DEF AttemptInv

\* Out of the discussion the transitions under way are only left to end.
LEMMA TransitionsLeft ==
  ASSUME AttemptInv, owners' = owners, entry' = entry, compiles' = Aborted,
         phase' # "discussion", Len(log') = Len(log)
  PROVE  OneTransition' /\ SeatsAsked'
  <1>1. ASSUME NEW d \in Aborted, NEW o \in owners, d.owner = o.id PROVE d.attempt = o.attempt
    <2>1. PICK c \in compiles : d.owner = c.owner /\ d.attempt = c.attempt
      BY AbortedFields DEF AttemptInv, Typed
    <2> QED
      BY <1>1, <2>1 DEF AttemptInv, OneTransition
  <1> QED
    BY <1>1 DEF AttemptInv, OneTransition, SeatsAsked

LEMMA Lasts ==
  ASSUME NEW q \in Seq(Brief), Len(q) <= KeptBriefs, NEW e \in Brief
  PROVE  /\ Latest(Append(q, e)) \in Seq(Brief)
         /\ Len(Latest(Append(q, e))) \in 1..KeptBriefs
         /\ Latest(Append(q, e))[Len(Latest(Append(q, e)))] = e
         /\ \A i \in DOMAIN Latest(Append(q, e)) :
              \/ Latest(Append(q, e))[i] = e
              \/ \E j \in DOMAIN q : Latest(Append(q, e))[i] = q[j]
  <1> DEFINE p == Append(q, e)
  <1>1. /\ p \in Seq(Brief) /\ Len(p) = Len(q) + 1 /\ p[Len(p)] = e /\ Len(q) \in Nat
        /\ \A i \in 1..Len(q) : p[i] = q[i]
    OBVIOUS
  <1>2. KeptBriefs \in Nat \ {0}
    BY BriefAssumption
  <1> HIDE DEF p
  <1>3. CASE Len(p) > KeptBriefs
    <2>1. /\ Tail(p) \in Seq(Brief) /\ Len(Tail(p)) = Len(q)
          /\ \A i \in 1..Len(q) : Tail(p)[i] = p[i + 1]
      BY <1>1, <1>2, <1>3
    <2>2. Latest(p) = Tail(p)
      BY <1>3 DEF Latest
    <2>3. Len(q) >= 1 /\ Tail(p)[Len(q)] = e
      BY <1>1, <1>2, <1>3, <2>1
    <2>4. ASSUME NEW i \in 1..Len(q)
          PROVE  Tail(p)[i] = e \/ \E j \in DOMAIN q : Tail(p)[i] = q[j]
      BY <1>1, <2>1
    <2> QED
      BY <1>1, <1>2, <2>1, <2>2, <2>3, <2>4 DEF p
  <1>4. CASE ~(Len(p) > KeptBriefs)
    <2>1. Latest(p) = p
      BY <1>4 DEF Latest
    <2> QED
      BY <1>1, <1>2, <1>4, <2>1 DEF p
  <1> QED
    BY <1>3, <1>4

\* What a result does to the briefs.
LEMMA ResultBriefs ==
  ASSUME AttemptInv, Open, NEW outcome \in {"pass", "fail"}, OnResult(outcome)
  PROVE  /\ attempt \in AttemptIds /\ attempt = Len(log) /\ memory.run \in AttemptIds
         /\ memory.attempt = attempt /\ memory.run <= attempt
         /\ shown' = [shown EXCEPT !.review = attempt]
         /\ briefs' \in [AttemptIds -> Seq(Brief)]
         /\ \A r \in AttemptIds : Len(briefs'[r]) <= KeptBriefs
         /\ outcome = "fail" => briefs'[memory.run] # <<>>
                                /\ briefs'[memory.run][Len(briefs'[memory.run])].source = attempt
         /\ outcome = "pass" => briefs'[memory.run] = <<>>
         /\ \A r \in AttemptIds : \A i \in DOMAIN briefs'[r] :
              \/ outcome = "fail" /\ r = memory.run
                   /\ briefs'[r][i] = [source |-> attempt, taught |-> FALSE]
              \/ \E j \in DOMAIN briefs[r] : briefs'[r][i] = briefs[r][j]
         /\ finalized' \in {finalized, finalized \cup {attempt}}
         /\ \/ lessons' = lessons
            \/ lessons' = lessons \cup {[attempt |-> attempt, version |-> version']}
  <1> DEFINE e == [source |-> attempt, taught |-> FALSE]
             m == memory.run
  <1>1. Typed /\ TypeOK /\ LastAttempt
    BY DEF AttemptInv, Typed
  <1>2. /\ attempt = Len(log) /\ attempt >= 1 /\ memory.attempt = attempt
        /\ m \in AttemptIds /\ attempt \notin finalized /\ m <= attempt
    BY <1>1 DEF LastAttempt, InGame, Open
  <1>3. attempt \in AttemptIds
    BY <1>1, <1>2, Fields DEF LastAttempt, AttemptIds
  <1>4. e \in Brief
    BY <1>3 DEF Brief
  <1>5. briefs \in [AttemptIds -> Seq(Brief)] /\ \A r \in AttemptIds : Len(briefs[r]) <= KeptBriefs
    BY <1>1 DEF Typed, TypeOK
  <1>6. CASE outcome = "pass"
    <2>1. shown' = [shown EXCEPT !.review = attempt] /\ briefs' = [briefs EXCEPT ![m] = <<>>]
          /\ finalized' = finalized /\ lessons' = lessons
      BY <1>2, <1>6 DEF OnResult, ForgetRun
    <2>2. briefs' \in [AttemptIds -> Seq(Brief)] /\ briefs'[m] = <<>>
          /\ \A r \in AttemptIds : r # m => briefs'[r] = briefs[r]
      BY <1>2, <1>5, <2>1
    <2>3. KeptBriefs \in Nat /\ Len(<<>>) = 0
      BY BriefAssumption
    <2>4. \A r \in AttemptIds : Len(briefs'[r]) <= KeptBriefs
      BY <1>5, <2>2, <2>3
    <2>5. \A r \in AttemptIds : \A i \in DOMAIN briefs'[r] :
            \E j \in DOMAIN briefs[r] : briefs'[r][i] = briefs[r][j]
      BY <2>2
    <2> QED
      BY <1>2, <1>3, <1>6, <2>1, <2>2, <2>4, <2>5
  <1>7. CASE outcome = "fail"
    <2>1. /\ shown' = [shown EXCEPT !.review = attempt]
          /\ briefs' = [briefs EXCEPT ![m] = Latest(Append(briefs[m], e))]
          /\ finalized' = finalized \cup {attempt}
          /\ \/ lessons' = lessons
             \/ lessons' = lessons \cup {[attempt |-> attempt, version |-> version']}
      BY <1>2, <1>7 DEF OnResult
    <2> DEFINE b == Latest(Append(briefs[m], e))
    <2>2. /\ b \in Seq(Brief) /\ Len(b) \in 1..KeptBriefs /\ b[Len(b)] = e
          /\ \A i \in DOMAIN b : b[i] = e \/ \E j \in DOMAIN briefs[m] : b[i] = briefs[m][j]
      <3>1. briefs[m] \in Seq(Brief) /\ Len(briefs[m]) <= KeptBriefs
        BY <1>2, <1>5
      <3> HIDE DEF e, m
      <3> QED
        BY <1>4, <3>1, Lasts
    <2> HIDE DEF b
    <2>3. briefs' \in [AttemptIds -> Seq(Brief)] /\ briefs'[m] = b
          /\ \A r \in AttemptIds : r # m => briefs'[r] = briefs[r]
      BY <1>2, <1>5, <2>1, <2>2 DEF b
    <2>4. KeptBriefs \in Nat /\ Len(<<>>) = 0
      BY BriefAssumption
    <2>5. \A r \in AttemptIds : Len(briefs'[r]) <= KeptBriefs
      BY <1>5, <2>2, <2>3, <2>4
    <2>6. ASSUME NEW r \in AttemptIds, NEW i \in DOMAIN briefs'[r]
          PROVE  \/ r = m /\ briefs'[r][i] = e
                 \/ \E j \in DOMAIN briefs[r] : briefs'[r][i] = briefs[r][j]
      BY <2>2, <2>3
    <2>7. b # <<>> /\ b[Len(b)].source = attempt
      BY <2>2, <2>4
    <2> QED
      BY <1>2, <1>3, <1>7, <2>1, <2>3, <2>5, <2>6, <2>7
  <1> QED
    BY <1>6, <1>7

LEMMA ResultStep ==
  ASSUME AttemptInv, Open, NEW outcome \in {"pass", "fail"}, OnResult(outcome),
         phase' \in {"reveal", "result"}, phase' = "reveal" => phase = "placing",
         run' = IF outcome = "pass" THEN NoRun ELSE run,
         attempt' = attempt, level' = level, version' = version + 1, timer' = 0
  PROVE  AttemptInv'
  <1>1. Typed /\ TypeOK /\ LastAttempt
    BY DEF AttemptInv, Typed
  <1>2. /\ owners' = owners /\ entry' = entry /\ begins' = begins /\ memory' = memory
        /\ locked' = locked /\ compiles' = Aborted
        /\ log' = [log EXCEPT ![attempt].outcome = outcome]
    BY DEF OnResult
  <1>3. /\ attempt \in AttemptIds /\ attempt = Len(log) /\ memory.run \in AttemptIds
        /\ memory.attempt = attempt /\ memory.run <= attempt /\ attempt \in 1..Len(log)
    BY <1>1, ResultBriefs, Ranges
  <1>4. /\ log' \in Seq(Entry) /\ Len(log') = Len(log)
        /\ \A i \in 1..Len(log) : log'[i].level = log[i].level
        /\ \A i \in 1..Len(log) : i # attempt => log'[i] = log[i]
        /\ log'[attempt].outcome = outcome
    BY <1>1, <1>2, <1>3, Closed DEF Outcome
  <1>5. version \in Nat /\ version' = version + 1 /\ Len(log) \in Nat
    BY <1>1, Fields
  <1>6. Typed'
    <2>1. phase' \in {"lobby", "discussion", "placing", "reveal", "result"} /\ attempt' \in 0..MaxAttempts
      BY <1>1 DEF TypeOK
    <2>2. run' \in [id : 0..MaxAttempts, level : 0..LastLevel] /\ level' \in 0..LastLevel
      BY <1>1, Fields DEF TypeOK, NoRun
    <2>3. version' \in Nat /\ timer' \in 0..version'
      BY <1>5
    <2>4. shown' \in [finalizing : BOOLEAN, review : 0..MaxAttempts]
      <3>1. shown' = [shown EXCEPT !.review = attempt] /\ attempt \in 0..MaxAttempts
        BY <1>3, ResultBriefs, Ranges
      <3> QED
        BY <1>1, <3>1 DEF TypeOK
    <2>5. compiles' \subseteq [owner : {o.id : o \in owners'}, seat : Agents, attempt : AttemptIds,
                         run : AttemptIds, version : 0..version', aborted : BOOLEAN]
      BY <1>1, <1>2, <1>5, AbortedTyped
    <2>6. memory' \in [attempt : 0..MaxAttempts, run : 0..MaxAttempts, level : 0..LastLevel,
                       inherited : 0..MaxAttempts]
      BY <1>1, <1>2 DEF TypeOK
    <2>7. locked' \in [Agents -> [attempt : 0..MaxAttempts, from : 0..MaxAttempts, cut : BOOLEAN]]
      BY <1>1, <1>2 DEF TypeOK
    <2>8. lessons' \subseteq [attempt : AttemptIds, version : 1..version']
      <3>1. lessons \subseteq [attempt : AttemptIds, version : 1..version']
        BY <1>1, <1>5 DEF TypeOK
      <3>2. [attempt |-> attempt, version |-> version'] \in [attempt : AttemptIds, version : 1..version']
        BY <1>3, <1>5
      <3> QED
        BY <3>1, <3>2, ResultBriefs
    <2>9. /\ owners' \subseteq [id : 1..begins', attempt : AttemptIds] /\ begins' \in Nat
          /\ entry' \in owners' \cup {NoEntry}
      BY <1>1, <1>2 DEF Typed, TypeOK
    <2>10. log' \in Seq([level : Levels, outcome : {"open", "pass", "fail"}])
      BY <1>4 DEF Entry, Outcome
    <2>11. /\ briefs' \in [AttemptIds -> Seq(Brief)]
           /\ \A s \in AttemptIds : briefs'[s] \in Seq(Brief) /\ Len(briefs'[s]) <= KeptBriefs
      BY ResultBriefs
    <2>12. finalized' \subseteq AttemptIds
      BY <1>1, <1>3, ResultBriefs DEF TypeOK
    <2> QED
      BY <2>1, <2>2, <2>3, <2>4, <2>5, <2>6, <2>7, <2>8, <2>9, <2>10, <2>11, <2>12, Zenon
      DEF Typed, TypeOK
  <1>7. LastAttempt'
    <2>1. finalized' \subseteq 1..Len(log')
      BY <1>1, <1>3, <1>4, ResultBriefs DEF LastAttempt
    <2>2. run'.id <= Len(log)
      BY <1>1, <1>5 DEF LastAttempt, NoRun
    <2>3. level \in Levels /\ attempt >= 1
      BY <1>1 DEF LastAttempt, Open, InGame
    <2>4. log'[attempt].outcome # "pass" => run' = run /\ log[attempt].outcome # "pass"
      BY <1>1, <1>4 DEF LastAttempt
    <2> QED
      BY <1>1, <1>2, <1>3, <1>4, <2>1, <2>2, <2>3, <2>4 DEF LastAttempt, InGame, Open
  <1>8. RunOfOneLevel'
    <2>1. CASE outcome = "pass"
      BY <2>1 DEF RunOfOneLevel, NoRun
    <2>2. CASE outcome = "fail"
      <3>1. run' = run /\ run.id \in Nat
        BY <1>1, <2>2, Fields
      <3>2. ASSUME run.id # 0, NEW x \in run.id..Len(log)
            PROVE  log'[x].level = run.level /\ log'[x].outcome # "pass"
        BY <1>4, <1>5, <2>2, <3>1, <3>2 DEF RunOfOneLevel, AttemptInv
      <3> QED
        BY <1>4, <3>1, <3>2 DEF RunOfOneLevel
    <2> QED
      BY <2>1, <2>2
  <1>9. BriefsOfDefeats'
    <2> SUFFICES ASSUME NEW r \in AttemptIds, NEW i \in DOMAIN briefs'[r]
                 PROVE  /\ briefs'[r][i].source \in r..Len(log)
                        /\ log'[briefs'[r][i].source].outcome = "fail"
      BY <1>4 DEF BriefsOfDefeats
    <2>1. CASE outcome = "fail" /\ r = memory.run
                 /\ briefs'[r][i] = [source |-> attempt, taught |-> FALSE]
      BY <1>3, <1>4, <1>5, <2>1, Ranges
    <2>2. CASE \E j \in DOMAIN briefs[r] : briefs'[r][i] = briefs[r][j]
      <3>1. PICK j \in DOMAIN briefs[r] : briefs'[r][i] = briefs[r][j]
        BY <2>2
      <3>2. briefs[r][j].source \in r..Len(log) /\ log[briefs[r][j].source].outcome = "fail"
        BY DEF BriefsOfDefeats, AttemptInv
      <3>3. log[attempt].outcome = "open"
        BY <1>1 DEF LastAttempt
      <3>4. briefs[r][j].source # attempt /\ briefs[r][j].source \in 1..Len(log)
        BY <1>5, <3>2, <3>3, Ranges
      <3> QED
        BY <1>4, <3>1, <3>2, <3>4
    <2> QED
      BY <2>1, <2>2, ResultBriefs
  <1>10. BriefOfSameLevel'
    <2>1. SUFFICES ASSUME memory.inherited # 0
                   PROVE  /\ log'[memory.inherited] = [level |-> memory.level, outcome |-> "fail"]
                          /\ \A a \in memory.inherited..(memory.attempt - 1) :
                               log'[a].level = memory.level /\ log'[a].outcome # "pass"
      BY <1>2 DEF BriefOfSameLevel
    <2>2. memory.inherited \in 1..Len(log) /\ memory.inherited < memory.attempt
      BY <1>1, <1>3, <2>1, Fields DEF LastAttempt
    <2>3. \A a \in memory.inherited..(memory.attempt - 1) : a \in 1..Len(log) /\ a # attempt
      BY <1>3, <1>5, <2>2
    <2> QED
      BY <1>4, <2>1, <2>2, <2>3, <1>3 DEF BriefOfSameLevel, AttemptInv
  <1>11. ResultIsReviewed'
    <2>1. shown'.review = attempt
      BY <1>1, ResultBriefs DEF TypeOK
    <2>2. outcome = "fail" => briefs'[memory.run] # <<>>
                                /\ briefs'[memory.run][Len(briefs'[memory.run])].source = attempt
      BY ResultBriefs
    <2>3. outcome = "pass" => briefs'[memory.run] = <<>>
      BY ResultBriefs
    <2>4. outcome = "fail" => run' = run /\ run.id = memory.run
      BY <1>1 DEF LastAttempt, Open, InGame
    <2> QED
      BY <1>2, <1>4, <2>1, <2>2, <2>3, <2>4 DEF ResultIsReviewed, LastBrief
  <1>12. OneTransition' /\ SeatsAsked'
    BY <1>2, <1>4, TransitionsLeft
  <1>13. OwnStrategies'
    BY <1>2 DEF OwnStrategies, AttemptInv
  <1> QED
    BY <1>6, <1>7, <1>8, <1>9, <1>10, <1>11, <1>12, <1>13 DEF AttemptInv

\* Transitions say nothing about runs, memory and results.
LEMMA OnlyTransitions ==
  ASSUME AttemptInv, UNCHANGED <<attempt, run, level, memory, briefs, finalized, log>>,
         phase' = phase \/ (phase = "discussion" /\ phase' = "placing"),
         shown'.review = shown.review
  PROVE  LastAttempt' /\ RunOfOneLevel' /\ BriefsOfDefeats' /\ BriefOfSameLevel' /\ ResultIsReviewed'
  <1>1. LastAttempt'
    BY DEF AttemptInv, LastAttempt, InGame, Open
  <1>2. RunOfOneLevel' /\ BriefsOfDefeats' /\ BriefOfSameLevel'
    BY DEF AttemptInv, RunOfOneLevel, BriefsOfDefeats, BriefOfSameLevel
  <1>3. ResultIsReviewed'
    BY DEF AttemptInv, ResultIsReviewed, LastBrief
  <1> QED
    BY <1>1, <1>2, <1>3

LEMMA AskedStrategies ==
  ASSUME attempt \in AttemptIds, run.id \in AttemptIds, version \in Nat, NEW o
  PROVE  /\ \A c \in Asked(o) :
              /\ c \in [owner : {o.id}, seat : Agents, attempt : AttemptIds, run : AttemptIds,
                        version : 0..version, aborted : BOOLEAN]
              /\ c.owner = o.id /\ c.attempt = attempt /\ c.run = run.id /\ c.version = version
              /\ c.aborted = FALSE
         /\ \A s \in Agents : \E c \in Asked(o) : c.owner = o.id /\ c.seat = s
  <1> DEFINE Ask(s) == [owner |-> o.id, seat |-> s, attempt |-> attempt, run |-> run.id,
                        version |-> version, aborted |-> FALSE]
  <1>1. Asked(o) = {Ask(s) : s \in Agents}
    BY DEF Asked
  <1>2. ASSUME NEW s \in Agents
        PROVE  /\ Ask(s) \in [owner : {o.id}, seat : Agents, attempt : AttemptIds, run : AttemptIds,
                              version : 0..version, aborted : BOOLEAN]
               /\ Ask(s).owner = o.id /\ Ask(s).seat = s /\ Ask(s).attempt = attempt
               /\ Ask(s).run = run.id /\ Ask(s).version = version /\ Ask(s).aborted = FALSE
    OBVIOUS
  <1> HIDE DEF Ask
  <1>3. ASSUME NEW c \in Asked(o)
        PROVE  /\ c \in [owner : {o.id}, seat : Agents, attempt : AttemptIds, run : AttemptIds,
                         version : 0..version, aborted : BOOLEAN]
               /\ c.owner = o.id /\ c.attempt = attempt /\ c.run = run.id /\ c.version = version
               /\ c.aborted = FALSE
    <2>1. PICK s \in Agents : c = Ask(s)
      BY <1>1
    <2> QED
      BY <1>2, <2>1
  <1>4. ASSUME NEW s \in Agents
        PROVE  \E c \in Asked(o) : c.owner = o.id /\ c.seat = s
    <2>1. Ask(s) \in Asked(o)
      BY <1>1
    <2> QED
      BY <1>2, <2>1
  <1> QED
    BY <1>3, <1>4

LEMMA BeginStep ==
  ASSUME AttemptInv, phase = "discussion", entry.attempt # attempt, BeginTransition,
         UNCHANGED <<memoryVars, log>>
  PROVE  AttemptInv'
  <1> DEFINE o == [id |-> begins + 1, attempt |-> attempt]
  <1>1. Typed /\ TypeOK /\ LastAttempt
    BY DEF AttemptInv, Typed
  <1>2. /\ begins' = begins + 1 /\ compiles' = Aborted \cup Asked(o)
        /\ memory' = memory /\ locked' = locked /\ briefs' = briefs /\ finalized' = finalized
        /\ lessons' = lessons /\ log' = log /\ attempt' = attempt /\ run' = run /\ level' = level
        /\ timer' = 0
    BY DEF BeginTransition, memoryVars
  <1>3. /\ begins \in Nat /\ version \in Nat /\ attempt \in AttemptIds /\ run.id \in AttemptIds
        /\ attempt = Len(log)
    BY <1>1, Fields DEF LastAttempt, InGame, Open, AttemptIds
  <1>4. Agents = {} => Asked(o) = {}
    BY DEF Asked
  <1>5. /\ Agents = {} => /\ phase' = "placing" /\ version' = version + 1
                          /\ shown' = shown /\ owners' = owners /\ entry' = entry
        /\ Agents # {} => /\ owners' = owners \cup {o} /\ entry' = o
                          /\ shown' = [shown EXCEPT !.finalizing = TRUE]
                          /\ phase' = phase /\ version' = version
    BY DEF BeginTransition
  <1>6. /\ o \in [id : 1..begins', attempt : AttemptIds] /\ o.id = begins + 1 /\ o.attempt = attempt
    BY <1>2, <1>3
  <1>7. \A c \in Asked(o) :
          /\ c \in [owner : {begins + 1}, seat : Agents, attempt : AttemptIds, run : AttemptIds,
                    version : 0..version, aborted : BOOLEAN]
          /\ c.owner = begins + 1 /\ c.attempt = attempt /\ c.run = run.id /\ c.version = version
          /\ c.aborted = FALSE
    BY <1>3, <1>6, AskedStrategies
  <1>8. \A s \in Agents : \E c \in Asked(o) : c.owner = begins + 1 /\ c.seat = s
    <2>1. \A s \in Agents : \E c \in Asked(o) : c.owner = o.id /\ c.seat = s
      BY <1>3, AskedStrategies
    <2> QED
      BY <1>6, <2>1
  <1> HIDE DEF o
  <1>9. version' \in Nat /\ version <= version'
    BY <1>3, <1>5
  <1>10. Typed'
    <2>1. phase' \in {"lobby", "discussion", "placing", "reveal", "result"} /\ attempt' \in 0..MaxAttempts
      BY <1>1, <1>2, <1>5 DEF TypeOK
    <2>2. run' \in [id : 0..MaxAttempts, level : 0..LastLevel] /\ level' \in 0..LastLevel
      BY <1>1, <1>2 DEF TypeOK
    <2>3. version' \in Nat /\ timer' \in 0..version'
      BY <1>2, <1>9
    <2>4. shown' \in [finalizing : BOOLEAN, review : 0..MaxAttempts]
      BY <1>1, <1>5 DEF TypeOK
    <2>5. compiles' \subseteq [owner : {p.id : p \in owners'}, seat : Agents, attempt : AttemptIds,
                         run : AttemptIds, version : 0..version', aborted : BOOLEAN]
      <3>1. owners \subseteq owners' /\ (Agents # {} => o \in owners')
        BY <1>5
      <3>2. Aborted \subseteq [owner : {p.id : p \in owners}, seat : Agents, attempt : AttemptIds,
                         run : AttemptIds, version : 0..version', aborted : BOOLEAN]
        BY <1>1, <1>9, AbortedTyped
      <3>3. Aborted \subseteq [owner : {p.id : p \in owners'}, seat : Agents, attempt : AttemptIds,
                         run : AttemptIds, version : 0..version', aborted : BOOLEAN]
        BY <3>1, <3>2
      <3>4. ASSUME Agents # {}
            PROVE  begins + 1 \in {p.id : p \in owners'} /\ 0..version \subseteq 0..version'
        BY <1>3, <1>6, <1>9, <3>1, <3>4
      <3> QED
        BY <1>2, <1>4, <1>7, <3>3, <3>4
    <2>6. memory' \in [attempt : 0..MaxAttempts, run : 0..MaxAttempts, level : 0..LastLevel,
                       inherited : 0..MaxAttempts]
      BY <1>1, <1>2 DEF TypeOK
    <2>7. locked' \in [Agents -> [attempt : 0..MaxAttempts, from : 0..MaxAttempts, cut : BOOLEAN]]
      BY <1>1, <1>2 DEF TypeOK
    <2>8. lessons' \subseteq [attempt : AttemptIds, version : 1..version']
      BY <1>1, <1>2, <1>3, <1>9 DEF TypeOK
    <2>9. /\ owners' \subseteq [id : 1..begins', attempt : AttemptIds] /\ begins' \in Nat
      <3>1. owners \subseteq [id : 1..begins', attempt : AttemptIds]
        BY <1>1, <1>2, <1>3 DEF TypeOK
      <3> QED
        BY <1>2, <1>3, <1>5, <1>6, <3>1
    <2>10. entry' \in owners' \cup {NoEntry} /\ finalized' \subseteq AttemptIds
      BY <1>1, <1>2, <1>5 DEF TypeOK
    <2>11. /\ briefs' \in [AttemptIds -> Seq(Brief)]
           /\ \A s \in AttemptIds : briefs'[s] \in Seq(Brief) /\ Len(briefs'[s]) <= KeptBriefs
           /\ log' \in Seq([level : Levels, outcome : {"open", "pass", "fail"}])
      BY <1>1, <1>2 DEF Typed, TypeOK
    <2> QED
      BY <2>1, <2>2, <2>3, <2>4, <2>5, <2>6, <2>7, <2>8, <2>9, <2>10, <2>11, Zenon
      DEF Typed, TypeOK
  <1>11. LastAttempt' /\ RunOfOneLevel' /\ BriefsOfDefeats' /\ BriefOfSameLevel' /\ ResultIsReviewed'
    <2>1. shown'.review = shown.review
      BY <1>1, <1>5 DEF TypeOK
    <2> QED
      BY <1>2, <1>5, <2>1, OnlyTransitions
  <1>12. OwnStrategies'
    BY <1>5 DEF OwnStrategies
  <1>13. OneTransition' /\ SeatsAsked'
    <2>1. CASE Agents = {}
      BY <1>2, <1>4, <1>5, <2>1, TransitionsLeft
    <2>2. CASE Agents # {}
      <3>1. \A p \in owners : p.id # begins + 1
        BY <1>1, <1>3, OwnerFields
      <3>2. \A p \in owners : p.attempt # attempt /\ p.attempt <= Len(log)
        BY DEF AttemptInv, OneTransition
      <3>3. ASSUME NEW d \in Aborted
            PROVE  d.owner # begins + 1 /\ \A p \in owners : d.owner = p.id => d.attempt = p.attempt
        <4>1. PICK c \in compiles : d.owner = c.owner /\ d.attempt = c.attempt
          BY <1>1, AbortedFields
        <4>2. c.owner # begins + 1
          BY <1>1, <3>1, CompileFields
        <4> QED
          BY <4>1, <4>2 DEF AttemptInv, OneTransition
      <3>4. OneTransition'
        <4>1. \A p, q \in owners' : p.id = q.id => p = q
          BY <1>5, <1>6, <2>2, <3>1 DEF AttemptInv, OneTransition
        <4>2. \A p \in owners' : p.attempt <= Len(log')
          BY <1>2, <1>3, <1>5, <1>6, <2>2, <3>2
        <4>3. \A p \in owners' : p.attempt = attempt' => entry' = p
          BY <1>2, <1>5, <2>2, <3>2
        <4>4. \A c \in compiles', p \in owners' : c.owner = p.id => c.attempt = p.attempt
          BY <1>2, <1>5, <1>6, <1>7, <2>2, <3>1, <3>3
        <4> QED
          BY <4>1, <4>2, <4>3, <4>4 DEF OneTransition
      <3>5. SeatsAsked'
        BY <1>2, <1>5, <1>6, <1>7, <1>8, <2>2, <3>3 DEF SeatsAsked
      <3> QED
        BY <3>4, <3>5
    <2> QED
      BY <2>1, <2>2
  <1> QED
    BY <1>10, <1>11, <1>12, <1>13 DEF AttemptInv

\* The strategy that a seat locks while its attempt is discussed is its own.
LEMMA SettledIsOwn ==
  ASSUME AttemptInv, NEW c \in compiles, NEW o \in owners, o.id = c.owner,
         locked' = IF TokensHold(c)
                   THEN [locked EXCEPT ![c.seat] =
                           [attempt |-> memory.attempt, from |-> c.attempt, cut |-> c.aborted]]
                   ELSE locked
  PROVE  /\ locked' \in [Agents -> [attempt : 0..MaxAttempts, from : 0..MaxAttempts, cut : BOOLEAN]]
         /\ phase = "discussion" /\ o.attempt = attempt =>
              /\ entry = o /\ locked'[c.seat] = Own(attempt)
              /\ \A s \in Agents \ {c.seat} : locked'[s] = locked[s]
         /\ phase = "discussion" /\ o.attempt # attempt => locked' = locked
         /\ phase # "discussion" => locked' = locked
  <1>1. Typed /\ TypeOK /\ LastAttempt
    BY DEF AttemptInv, Typed
  <1>2. c.attempt = o.attempt /\ c.seat \in Agents /\ c.aborted \in BOOLEAN /\ c.attempt \in 0..MaxAttempts
    BY <1>1, CompileFields, Ranges DEF AttemptInv, OneTransition
  <1>3. memory.attempt \in 0..MaxAttempts
         /\ locked \in [Agents -> [attempt : 0..MaxAttempts, from : 0..MaxAttempts, cut : BOOLEAN]]
    BY <1>1, Fields DEF TypeOK
  <1>4. CASE phase = "discussion" /\ o.attempt = attempt
    <2>1. entry = o
      BY <1>4 DEF AttemptInv, OneTransition
    <2>2. ~c.aborted /\ c.run = run.id /\ c.version = version /\ memory.attempt = attempt
      BY <1>1, <1>4, <2>1 DEF AttemptInv, SeatsAsked, LastAttempt, InGame
    <2>3. TokensHold(c)
      BY <1>2, <1>4, <2>2 DEF TokensHold
    <2>4. locked' = [locked EXCEPT ![c.seat] = Own(attempt)]
      BY <1>2, <1>4, <2>2, <2>3 DEF Own
    <2>5. Own(attempt) \in [attempt : 0..MaxAttempts, from : 0..MaxAttempts, cut : BOOLEAN]
      BY <1>2, <1>4 DEF Own
    <2> QED
      BY <1>2, <1>3, <1>4, <2>1, <2>4, <2>5
  <1>5. CASE ~(phase = "discussion" /\ o.attempt = attempt)
    <2>1. ~TokensHold(c)
      BY <1>2, <1>5 DEF TokensHold
    <2> QED
      BY <1>3, <1>5, <2>1
  <1> QED
    BY <1>4, <1>5

LEMMA OwnerOfStrategy ==
  ASSUME TypeOK, NEW c \in compiles, NEW o, o = CHOOSE p \in owners : p.id = c.owner
  PROVE  o \in owners /\ o.id = c.owner
  BY CompileFields

\* The seats of a transition that goes on are still asked or have locked.
LEMMA StillAsked ==
  ASSUME AttemptInv, NEW c \in compiles, NEW o \in owners, o.id = c.owner,
         phase = "discussion", entry.attempt = attempt,
         phase' = phase, attempt' = attempt, run' = run, version' = version, entry' = entry,
         compiles' = compiles \ {c},
         locked' = IF TokensHold(c)
                   THEN [locked EXCEPT ![c.seat] =
                           [attempt |-> memory.attempt, from |-> c.attempt, cut |-> c.aborted]]
                   ELSE locked
  PROVE  SeatsAsked'
  <1>1. \A d \in compiles' : d.owner = entry.id =>
          ~d.aborted /\ d.attempt = attempt /\ d.run = run.id /\ d.version = version
    BY DEF AttemptInv, SeatsAsked
  <1>2. ASSUME NEW s \in Agents
        PROVE  locked'[s] = Own(attempt) \/ \E d \in compiles' : d.owner = entry.id /\ d.seat = s
    <2>1. CASE o.attempt = attempt
      <3>1. /\ entry = o /\ locked'[c.seat] = Own(attempt)
            /\ \A r \in Agents \ {c.seat} : locked'[r] = locked[r]
        BY <2>1, SettledIsOwn
      <3>2. CASE s = c.seat
        BY <3>1, <3>2
      <3>3. CASE s # c.seat
        <4>1. \/ locked[s] = Own(attempt)
              \/ \E d \in compiles : d.owner = entry.id /\ d.seat = s
          BY DEF AttemptInv, SeatsAsked
        <4> QED
          BY <3>1, <3>3, <4>1
      <3> QED
        BY <3>2, <3>3
    <2>2. CASE o.attempt # attempt
      <3>1. locked' = locked
        BY <2>2, SettledIsOwn
      <3>2. c.owner # entry.id
        <4>1. entry \in owners
          <5>1. attempt # 0
            BY DEF AttemptInv, LastAttempt, InGame
          <5>2. entry \in owners \cup {NoEntry}
            BY DEF AttemptInv, Typed, TypeOK
          <5> QED
            BY <5>1, <5>2 DEF NoEntry
        <4> QED
          BY <2>2, <4>1 DEF AttemptInv, OneTransition
      <3> QED
        BY <3>1, <3>2 DEF AttemptInv, SeatsAsked
    <2> QED
      BY <2>1, <2>2
  <1> QED
    BY <1>1, <1>2 DEF SeatsAsked

LEMMA SettleStep ==
  ASSUME AttemptInv, NEW c \in compiles, StrategySettles(c)
  PROVE  AttemptInv'
  <1>1. Typed /\ TypeOK /\ LastAttempt
    BY DEF AttemptInv, Typed
  <1>2. PICK o : o = CHOOSE p \in owners : p.id = c.owner
    OBVIOUS
  <1>3. o \in owners /\ o.id = c.owner
    BY <1>1, <1>2, OwnerOfStrategy
  <1>4. /\ compiles' = compiles \ {c}
        /\ locked' = IF TokensHold(c)
                     THEN [locked EXCEPT ![c.seat] =
                             [attempt |-> memory.attempt, from |-> c.attempt, cut |-> c.aborted]]
                     ELSE locked
        /\ begins' = begins /\ memory' = memory /\ briefs' = briefs /\ finalized' = finalized
        /\ lessons' = lessons /\ log' = log
    BY DEF StrategySettles
  <1>5. locked' \in [Agents -> [attempt : 0..MaxAttempts, from : 0..MaxAttempts, cut : BOOLEAN]]
    BY <1>3, <1>4, SettledIsOwn
  <1>6. version \in Nat /\ timer \in 0..version
    BY <1>1 DEF TypeOK
  <1>7. /\ briefs' \in [AttemptIds -> Seq(Brief)]
        /\ \A s \in AttemptIds : briefs'[s] \in Seq(Brief) /\ Len(briefs'[s]) <= KeptBriefs
        /\ log' \in Seq([level : Levels, outcome : {"open", "pass", "fail"}])
        /\ memory' \in [attempt : 0..MaxAttempts, run : 0..MaxAttempts, level : 0..LastLevel,
                        inherited : 0..MaxAttempts]
        /\ finalized' \subseteq AttemptIds /\ begins' \in Nat
    BY <1>1, <1>4 DEF Typed, TypeOK
  <1>8. CASE \E d \in compiles \ {c} : d.owner = c.owner
    <2>1. UNCHANGED <<phase, attempt, run, level, version, timer, shown, owners, entry>>
      BY <1>8 DEF StrategySettles, roomVars
    <2>2. Typed'
      BY <1>1, <1>4, <1>5, <1>7, <2>1 DEF Typed, TypeOK
    <2>3. LastAttempt' /\ RunOfOneLevel' /\ BriefsOfDefeats' /\ BriefOfSameLevel' /\ ResultIsReviewed'
      BY <1>4, <2>1, OnlyTransitions
    <2>4. OneTransition'
      BY <1>4, <2>1 DEF AttemptInv, OneTransition
    <2>5. SeatsAsked'
      <3>1. CASE phase = "discussion" /\ entry.attempt = attempt
        BY <1>3, <1>4, <2>1, <3>1, StillAsked
      <3>2. CASE ~(phase = "discussion" /\ entry.attempt = attempt)
        BY <2>1, <3>2 DEF SeatsAsked
      <3> QED
        BY <3>1, <3>2
    <2>6. OwnStrategies'
      <3>1. phase # "discussion" => locked' = locked
        BY <1>3, <1>4, SettledIsOwn
      <3> QED
        BY <2>1, <3>1 DEF AttemptInv, OwnStrategies
    <2> QED
      BY <2>2, <2>3, <2>4, <2>5, <2>6 DEF AttemptInv
  <1>9. CASE ~ \E d \in compiles \ {c} : d.owner = c.owner
    <2>1. Finish(o)
      BY <1>2, <1>9 DEF StrategySettles
    <2>2. /\ owners' = owners \ {o} /\ entry' = IF entry.id = o.id THEN NoEntry ELSE entry
          /\ shown' = [shown EXCEPT !.finalizing = FALSE]
          /\ attempt' = attempt /\ run' = run /\ level' = level
          /\ IsCurrent(o) => phase' = "placing" /\ version' = version + 1 /\ timer' = 0
          /\ ~IsCurrent(o) => phase' = phase /\ version' = version /\ timer' = timer
      BY <2>1 DEF Finish
    <2>3. version' \in Nat /\ version <= version' /\ timer' \in 0..version'
      BY <1>6, <2>2
    <2>4. Typed'
      <3>1. phase' \in {"lobby", "discussion", "placing", "reveal", "result"} /\ attempt' \in 0..MaxAttempts
        BY <1>1, <2>2 DEF TypeOK
      <3>2. run' \in [id : 0..MaxAttempts, level : 0..LastLevel] /\ level' \in 0..LastLevel
        BY <1>1, <2>2 DEF TypeOK
      <3>3. shown' \in [finalizing : BOOLEAN, review : 0..MaxAttempts]
        BY <1>1, <2>2 DEF TypeOK
      <3>4. compiles' \subseteq [owner : {p.id : p \in owners'}, seat : Agents, attempt : AttemptIds,
                           run : AttemptIds, version : 0..version', aborted : BOOLEAN]
        <4> SUFFICES ASSUME NEW d \in compiles \ {c}
                     PROVE  d \in [owner : {p.id : p \in owners'}, seat : Agents,
                                   attempt : AttemptIds, run : AttemptIds,
                                   version : 0..version', aborted : BOOLEAN]
          BY <1>4
        <4>1. d \in Compile /\ d.version \in 0..version
          BY <1>1, CompileFields
        <4>2. PICK p \in owners : p.id = d.owner
          BY <1>1, CompileFields
        <4>3. p \in owners'
          BY <1>3, <1>9, <2>2, <4>2
        <4>4. d.owner \in {q.id : q \in owners'} /\ d.version \in 0..version'
          BY <1>6, <2>3, <4>1, <4>2, <4>3
        <4> QED
          BY <4>1, <4>4 DEF Compile
      <3>5. lessons' \subseteq [attempt : AttemptIds, version : 1..version']
        BY <1>1, <1>4, <1>6, <2>3 DEF TypeOK
      <3>6. owners' \subseteq [id : 1..begins', attempt : AttemptIds] /\ entry' \in owners' \cup {NoEntry}
        BY <1>1, <1>4, <2>2 DEF TypeOK
      <3> QED
        BY <1>5, <1>7, <2>3, <3>1, <3>2, <3>3, <3>4, <3>5, <3>6, Zenon DEF Typed, TypeOK
    <2>5. LastAttempt' /\ RunOfOneLevel' /\ BriefsOfDefeats' /\ BriefOfSameLevel' /\ ResultIsReviewed'
      <3>1. shown'.review = shown.review
        BY <1>1, <2>2 DEF TypeOK
      <3>2. phase' = phase \/ (phase = "discussion" /\ phase' = "placing")
        BY <2>2 DEF IsCurrent
      <3> QED
        BY <1>4, <2>2, <3>1, <3>2, OnlyTransitions
    <2>6. ASSUME phase' = "discussion"
          PROVE  /\ phase = "discussion" /\ o.attempt # attempt /\ version' = version
                 /\ entry'.attempt = attempt => entry' = entry
      <3>1. attempt # 0
        BY <1>1, <2>2, <2>6 DEF LastAttempt, InGame, IsCurrent
      <3> QED
        BY <2>2, <2>6, <3>1 DEF IsCurrent, NoEntry
    <2>7. OneTransition'
      <3>1. \A p, q \in owners' : p.id = q.id => p = q
        BY <2>2 DEF AttemptInv, OneTransition
      <3>2. \A p \in owners' : p.attempt <= Len(log')
        BY <1>4, <2>2 DEF AttemptInv, OneTransition
      <3>3. phase' = "discussion" => \A p \in owners' : p.attempt = attempt' => entry' = p
        BY <1>3, <2>2, <2>6 DEF AttemptInv, OneTransition
      <3>4. \A d \in compiles', p \in owners' : d.owner = p.id => d.attempt = p.attempt
        BY <1>4, <2>2 DEF AttemptInv, OneTransition
      <3> QED
        BY <3>1, <3>2, <3>3, <3>4 DEF OneTransition
    <2>8. SeatsAsked'
      <3>1. CASE phase' = "discussion" /\ entry'.attempt = attempt
        BY <1>3, <1>4, <2>2, <2>6, <3>1, StillAsked
      <3>2. CASE ~(phase' = "discussion" /\ entry'.attempt = attempt)
        BY <2>2, <3>2 DEF SeatsAsked
      <3> QED
        BY <3>1, <3>2
    <2>9. OwnStrategies'
      <3>1. CASE IsCurrent(o)
        <4>1. /\ entry = o /\ locked'[c.seat] = Own(attempt)
              /\ \A s \in Agents \ {c.seat} : locked'[s] = locked[s]
          BY <1>3, <1>4, <3>1, SettledIsOwn DEF IsCurrent
        <4>2. ASSUME NEW s \in Agents PROVE locked'[s] = Own(attempt)
          <5>1. \/ locked[s] = Own(attempt)
                \/ \E d \in compiles : d.owner = entry.id /\ d.seat = s
            BY <3>1, <4>1 DEF AttemptInv, SeatsAsked, IsCurrent
          <5> QED
            BY <1>3, <1>9, <4>1, <5>1
        <4> QED
          BY <2>2, <4>2 DEF OwnStrategies, Own
      <3>2. CASE ~IsCurrent(o)
        <4>1. phase # "discussion" => locked' = locked
          BY <1>3, <1>4, SettledIsOwn
        <4> QED
          BY <2>2, <3>2, <4>1 DEF AttemptInv, OwnStrategies
      <3> QED
        BY <3>1, <3>2
    <2> QED
      BY <2>4, <2>5, <2>7, <2>8, <2>9 DEF AttemptInv
  <1> QED
    BY <1>8, <1>9

LEMMA LessonsStep ==
  ASSUME AttemptInv, NEW q \in lessons, NEW useful \in BOOLEAN, LessonsArrive(q, useful)
  PROVE  /\ AttemptInv'
         /\ \A r \in AttemptIds :
              /\ DOMAIN briefs'[r] = DOMAIN briefs[r]
              /\ \A i \in DOMAIN briefs[r] :
                   /\ briefs'[r][i].source = briefs[r][i].source
                   /\ briefs'[r][i].taught = briefs[r][i].taught \/ briefs[r][i].source = memory.attempt
  <1>1. Typed /\ TypeOK
    BY DEF AttemptInv, Typed
  <1>2. UNCHANGED <<phase, attempt, run, level, version, timer, shown, owners, entry, compiles,
                    begins, memory, locked, finalized, log>> /\ lessons' = lessons \ {q}
    BY DEF LessonsArrive, roomVars, transitionVars
  <1>3. ASSUME NEW r \in AttemptIds
        PROVE  /\ briefs'[r] \in Seq(Brief) /\ Len(briefs'[r]) = Len(briefs[r])
               /\ DOMAIN briefs'[r] = DOMAIN briefs[r]
               /\ \A i \in DOMAIN briefs[r] :
                    /\ briefs'[r][i].source = briefs[r][i].source
                    /\ \/ briefs'[r][i].taught = briefs[r][i].taught
                       \/ briefs[r][i].source = memory.attempt
    <2>1. briefs[r] \in Seq(Brief)
      BY <1>1 DEF Typed
    <2>2. CASE useful /\ LessonsFit(q)
      <3>1. /\ briefs'[r] = [i \in DOMAIN briefs[r] |->
                               IF briefs[r][i].source = q.attempt
                               THEN [briefs[r][i] EXCEPT !.taught = TRUE] ELSE briefs[r][i]]
            /\ q.attempt = memory.attempt
        BY <2>2 DEF LessonsArrive, LessonsFit
      <3>2. \A i \in DOMAIN briefs[r] :
              /\ briefs[r][i] \in Brief
              /\ [briefs[r][i] EXCEPT !.taught = TRUE] \in Brief
              /\ [briefs[r][i] EXCEPT !.taught = TRUE].source = briefs[r][i].source
        <4> SUFFICES ASSUME NEW i \in DOMAIN briefs[r]
                     PROVE  /\ briefs[r][i] \in Brief
                            /\ [briefs[r][i] EXCEPT !.taught = TRUE] \in Brief
                            /\ [briefs[r][i] EXCEPT !.taught = TRUE].source = briefs[r][i].source
          OBVIOUS
        <4>1. briefs[r][i] \in Brief
          BY <2>1
        <4> QED
          BY <4>1 DEF Brief
      <3>3. DOMAIN briefs[r] = 1..Len(briefs[r]) /\ Len(briefs[r]) \in Nat
        BY <2>1
      <3>4. ASSUME NEW i \in DOMAIN briefs[r]
            PROVE  /\ briefs'[r][i] \in Brief
                   /\ briefs'[r][i].source = briefs[r][i].source
                   /\ \/ briefs'[r][i].taught = briefs[r][i].taught
                      \/ briefs[r][i].source = memory.attempt
        BY <3>1, <3>2
      <3>5. briefs'[r] \in [1..Len(briefs[r]) -> Brief]
        BY <3>1, <3>3, <3>4
      <3>6. briefs'[r] \in Seq(Brief) /\ Len(briefs'[r]) = Len(briefs[r])
        BY <3>3, <3>5
      <3> QED
        BY <3>3, <3>4, <3>6
    <2>3. CASE ~(useful /\ LessonsFit(q))
      BY <2>1, <2>3 DEF LessonsArrive
    <2> QED
      BY <2>2, <2>3
  <1>4. briefs' \in [AttemptIds -> Seq(Brief)]
    <2>1. CASE useful /\ LessonsFit(q)
      <3>1. DOMAIN briefs' = AttemptIds /\ briefs' = [r \in AttemptIds |-> briefs'[r]]
        BY <2>1 DEF LessonsArrive
      <3> QED
        BY <1>3, <3>1
    <2>2. CASE ~(useful /\ LessonsFit(q))
      BY <1>1, <2>2 DEF LessonsArrive, Typed
    <2> QED
      BY <2>1, <2>2
  <1>5. \A r \in AttemptIds : Len(briefs'[r]) <= KeptBriefs
    BY <1>1, <1>3 DEF Typed, TypeOK
  <1>6. Typed'
    <2>1. lessons' \subseteq lessons
      BY <1>2
    <2> QED
      BY <1>1, <1>2, <1>3, <1>4, <1>5, <2>1 DEF Typed, TypeOK
  <1>7. LastAttempt' /\ RunOfOneLevel' /\ BriefOfSameLevel' /\ OneTransition' /\ SeatsAsked'
        /\ OwnStrategies'
    BY <1>2 DEF AttemptInv, LastAttempt, InGame, Open, RunOfOneLevel, BriefOfSameLevel,
                OneTransition, SeatsAsked, OwnStrategies
  <1>8. BriefsOfDefeats'
    BY <1>2, <1>3 DEF AttemptInv, BriefsOfDefeats
  <1>9. ResultIsReviewed'
    <2> SUFFICES ASSUME phase \in {"reveal", "result"}
                 PROVE  ResultIsReviewed'
      BY <1>2 DEF ResultIsReviewed
    <2>1. memory.run \in AttemptIds
      BY DEF AttemptInv, LastAttempt, InGame
    <2>2. LastBrief(memory.run)' = LastBrief(memory.run)
          /\ (briefs[memory.run] = <<>> => briefs'[memory.run] = <<>>)
      <3>1. briefs[memory.run] \in Seq(Brief)
        BY <1>1, <2>1 DEF Typed
      <3>2. briefs[memory.run] = <<>> <=> Len(briefs[memory.run]) = 0
        BY <3>1
      <3>3. briefs'[memory.run] = <<>> <=> Len(briefs'[memory.run]) = 0
        BY <1>3, <2>1
      <3>4. briefs[memory.run] # <<>> => Len(briefs[memory.run]) \in DOMAIN briefs[memory.run]
        BY <3>1
      <3> QED
        BY <1>2, <1>3, <2>1, <3>2, <3>3, <3>4 DEF LastBrief
    <2>3. log[attempt].outcome = "fail" => run.id = memory.run
      BY DEF AttemptInv, LastAttempt, InGame
    <2> QED
      BY <1>2, <2>2, <2>3 DEF AttemptInv, ResultIsReviewed, LastBrief
  <1> QED
    BY <1>3, <1>6, <1>7, <1>8, <1>9 DEF AttemptInv

\* The room gives the game up; the agents' memory keeps or loses its briefs.
Leaves ==
  /\ phase' = "lobby" /\ (level' = 0 \/ level' = level) /\ timer' = 0
  /\ version' = version + 1 \/ version' = version + 2
  /\ attempt' = 0 \/ attempt' = attempt
  /\ run' = NoRun \/ run' = run
  /\ shown' = Quiet \/ shown' = shown
  /\ compiles' = Aborted \/ compiles' = compiles
  /\ memory' = NoMemory \/ memory' = memory
  /\ locked' = NoStrategies \/ locked' = locked
  /\ briefs' = NoBriefs \/ briefs' = briefs \/ briefs' = [briefs EXCEPT ![run.id] = <<>>]
  /\ finalized' = {} \/ finalized' = finalized
  /\ UNCHANGED <<owners, entry, begins, lessons, log>>

LEMMA LeaveStep ==
  ASSUME AttemptInv, Leaves
  PROVE  AttemptInv'
  <1>a. /\ phase' = "lobby" /\ timer' = 0 /\ (level' = 0 \/ level' = level)
        /\ (version' = version + 1 \/ version' = version + 2)
    BY DEF Leaves
  <1>b. attempt' = 0 \/ attempt' = attempt
    BY DEF Leaves
  <1>c. run' = NoRun \/ run' = run
    BY DEF Leaves
  <1>d. shown' = Quiet \/ shown' = shown
    BY DEF Leaves
  <1>e. compiles' = Aborted \/ compiles' = compiles
    BY DEF Leaves
  <1>f. memory' = NoMemory \/ memory' = memory
    BY DEF Leaves
  <1>g. locked' = NoStrategies \/ locked' = locked
    BY DEF Leaves
  <1>h. briefs' = NoBriefs \/ briefs' = briefs \/ briefs' = [briefs EXCEPT ![run.id] = <<>>]
    BY DEF Leaves
  <1>i. finalized' = {} \/ finalized' = finalized
    BY DEF Leaves
  <1>j. owners' = owners /\ entry' = entry /\ begins' = begins /\ lessons' = lessons /\ log' = log
    BY DEF Leaves
  <1>1. Typed /\ TypeOK /\ LastAttempt
    BY DEF AttemptInv, Typed
  <1>2. version \in Nat /\ version' \in Nat /\ version <= version' /\ MaxAttempts \in Nat
        /\ LastLevel \in Nat /\ KeptBriefs \in Nat
    <2>1. version \in Nat /\ MaxAttempts \in Nat /\ LastLevel \in Nat /\ KeptBriefs \in Nat
      BY <1>1, Fields
    <2> QED
      BY <1>a, <2>1
  <1>3. ASSUME NEW r \in AttemptIds
        PROVE  /\ briefs'[r] \in Seq(Brief) /\ Len(briefs'[r]) <= KeptBriefs
               /\ briefs'[r] = <<>> \/ briefs'[r] = briefs[r]
    <2>1. <<>> \in Seq(Brief) /\ Len(<<>>) = 0 /\ NoBriefs[r] = <<>>
      BY DEF NoBriefs
    <2>2. briefs \in [AttemptIds -> Seq(Brief)] /\ Len(briefs[r]) <= KeptBriefs
      BY <1>1 DEF Typed, TypeOK
    <2>3. briefs'[r] = <<>> \/ briefs'[r] = briefs[r]
      BY <1>h, <2>1, <2>2
    <2>4. Len(<<>>) <= KeptBriefs
      BY <1>2, <2>1
    <2> QED
      BY <2>1, <2>2, <2>3, <2>4
  <1>4. briefs' \in [AttemptIds -> Seq(Brief)]
    <2>1. <<>> \in Seq(Brief) /\ briefs \in [AttemptIds -> Seq(Brief)]
      BY <1>1 DEF Typed
    <2>2. NoBriefs \in [AttemptIds -> Seq(Brief)]
      BY <2>1 DEF NoBriefs
    <2>3. [briefs EXCEPT ![run.id] = <<>>] \in [AttemptIds -> Seq(Brief)]
      BY <2>1
    <2> QED
      BY <1>h, <2>1, <2>2, <2>3
  <1>5. Typed'
    <2>1. run' \in [id : 0..MaxAttempts, level : 0..LastLevel] /\ level' \in 0..LastLevel
          /\ attempt' \in 0..MaxAttempts /\ timer' \in 0..version'
      BY <1>a, <1>b, <1>c, <1>1, <1>2 DEF TypeOK, NoRun
    <2>2. shown' \in [finalizing : BOOLEAN, review : 0..MaxAttempts]
      <3>1. Quiet \in [finalizing : BOOLEAN, review : 0..MaxAttempts]
        BY <1>2 DEF Quiet
      <3>2. shown \in [finalizing : BOOLEAN, review : 0..MaxAttempts]
        BY <1>1 DEF TypeOK
      <3> QED
        BY <1>d, <3>1, <3>2
    <2>3. compiles' \subseteq [owner : {p.id : p \in owners'}, seat : Agents, attempt : AttemptIds,
                         run : AttemptIds, version : 0..version', aborted : BOOLEAN]
      <3>1. compiles \subseteq [owner : {p.id : p \in owners}, seat : Agents, attempt : AttemptIds,
                         run : AttemptIds, version : 0..version', aborted : BOOLEAN]
        <4>1. 0..version \subseteq 0..version'
          BY <1>2
        <4> QED
          BY <1>1, <4>1 DEF TypeOK
      <3>2. Aborted \subseteq [owner : {p.id : p \in owners}, seat : Agents, attempt : AttemptIds,
                         run : AttemptIds, version : 0..version', aborted : BOOLEAN]
        BY <1>1, <1>2, AbortedTyped
      <3> QED
        BY <1>e, <1>j, <3>1, <3>2
    <2>4. memory' \in [attempt : 0..MaxAttempts, run : 0..MaxAttempts, level : 0..LastLevel,
                       inherited : 0..MaxAttempts]
      BY <1>f, <1>1, <1>2 DEF TypeOK, NoMemory
    <2>5. locked' \in [Agents -> [attempt : 0..MaxAttempts, from : 0..MaxAttempts, cut : BOOLEAN]]
      <3>1. NoStrategy \in [attempt : 0..MaxAttempts, from : 0..MaxAttempts, cut : BOOLEAN]
        BY <1>2 DEF NoStrategy
      <3>2. NoStrategies \in [Agents -> [attempt : 0..MaxAttempts, from : 0..MaxAttempts, cut : BOOLEAN]]
        BY <3>1 DEF NoStrategies
      <3>3. locked \in [Agents -> [attempt : 0..MaxAttempts, from : 0..MaxAttempts, cut : BOOLEAN]]
        BY <1>1 DEF TypeOK
      <3> QED
        BY <1>g, <3>2, <3>3
    <2>6. lessons' \subseteq [attempt : AttemptIds, version : 1..version']
      BY <1>j, <1>1, <1>2 DEF TypeOK
    <2>7. /\ owners' \subseteq [id : 1..begins', attempt : AttemptIds] /\ begins' \in Nat
          /\ entry' \in owners' \cup {NoEntry} /\ finalized' \subseteq AttemptIds
          /\ log' \in Seq([level : Levels, outcome : {"open", "pass", "fail"}])
      BY <1>i, <1>j, <1>1 DEF TypeOK
    <2> QED
      BY <1>a, <1>2, <1>3, <1>4, <2>1, <2>2, <2>3, <2>4, <2>5, <2>6, <2>7, Zenon DEF Typed, TypeOK
  <1>6. LastAttempt'
    <2>1. Len(log) \in Nat /\ NoRun.id = 0 /\ NoMemory.attempt = 0 /\ NoMemory.run = 0
          /\ NoMemory.inherited = 0
      BY <1>1, Fields DEF NoRun, NoMemory
    <2>2. Len(log) <= MaxAttempts /\ attempt' \in {0, Len(log)}
      BY <1>b, <1>1 DEF LastAttempt
    <2>3. run'.id <= Len(log)
      BY <1>c, <1>1, <2>1 DEF LastAttempt
    <2>4. /\ memory'.attempt <= Len(log) /\ memory'.run <= memory'.attempt
          /\ memory'.inherited # 0 => memory'.inherited < memory'.attempt
      BY <1>f, <1>1, <2>1 DEF LastAttempt
    <2>5. finalized' \subseteq 1..Len(log)
      BY <1>i, <1>1 DEF LastAttempt
    <2> QED
      BY <1>a, <1>j, <2>2, <2>3, <2>4, <2>5 DEF LastAttempt, InGame, Open
  <1>7. RunOfOneLevel' /\ BriefsOfDefeats' /\ BriefOfSameLevel'
    <2>1. RunOfOneLevel'
      BY <1>c, <1>j DEF AttemptInv, RunOfOneLevel, NoRun
    <2>2. BriefsOfDefeats'
      BY <1>3, <1>j DEF AttemptInv, BriefsOfDefeats
    <2>3. BriefOfSameLevel'
      BY <1>f, <1>j DEF AttemptInv, BriefOfSameLevel, NoMemory
    <2> QED
      BY <2>1, <2>2, <2>3
  <1>8. ResultIsReviewed' /\ OwnStrategies' /\ SeatsAsked'
    BY <1>a DEF ResultIsReviewed, OwnStrategies, SeatsAsked
  <1>9. OneTransition'
    <2>1. CASE compiles' = compiles
      BY <1>a, <1>j, <2>1 DEF AttemptInv, OneTransition
    <2>2. CASE compiles' = Aborted
      BY <1>a, <1>j, <2>2, TransitionsLeft
    <2> QED
      BY <1>e, <2>1, <2>2
  <1> QED
    BY <1>5, <1>6, <1>7, <1>8, <1>9 DEF AttemptInv

LEMMA LeavesAre ==
  ASSUME AttemptInv, BackToLevelSelect \/ RemovePlayer \/ EndSession \/ RoomEmptied
  PROVE  Leaves
  <1>1. CASE BackToLevelSelect
    BY <1>1 DEF BackToLevelSelect, Leaves
  <1>2. CASE RemovePlayer
    BY <1>2 DEF RemovePlayer, Leaves, memoryVars
  <1>3. CASE EndSession
    BY <1>3 DEF EndSession, Leaves
  <1>4. CASE RoomEmptied
    BY <1>4 DEF RoomEmptied, Leaves, transitionVars, memoryVars
  <1> QED
    BY <1>1, <1>2, <1>3, <1>4

LEMMA ContinueStep ==
  ASSUME AttemptInv, ContinueToResult
  PROVE  AttemptInv'
  <1>1. /\ phase = "reveal" /\ phase' = "result" /\ version' = version + 1
        /\ UNCHANGED <<attempt, run, level, timer, shown, owners, entry, compiles, begins, memory,
                       locked, briefs, finalized, lessons, log>>
    BY DEF ContinueToResult, transitionVars, memoryVars
  <1>2. version \in Nat /\ timer \in 0..version
    BY DEF AttemptInv, Typed, TypeOK
  <1>3. version' \in Nat /\ timer' \in 0..version' /\ 0..version \subseteq 0..version'
        /\ 1..version \subseteq 1..version'
    BY <1>1, <1>2
  <1>4. Typed'
    <2>1. compiles' \subseteq [owner : {p.id : p \in owners'}, seat : Agents, attempt : AttemptIds,
                         run : AttemptIds, version : 0..version', aborted : BOOLEAN]
          /\ lessons' \subseteq [attempt : AttemptIds, version : 1..version']
      BY <1>1, <1>3 DEF AttemptInv, Typed, TypeOK
    <2> QED
      BY <1>1, <1>3, <2>1 DEF AttemptInv, Typed, TypeOK
  <1>5. LastAttempt' /\ RunOfOneLevel' /\ BriefsOfDefeats' /\ BriefOfSameLevel' /\ ResultIsReviewed'
    BY <1>1 DEF AttemptInv, LastAttempt, InGame, Open, RunOfOneLevel, BriefsOfDefeats,
                BriefOfSameLevel, ResultIsReviewed, LastBrief
  <1>6. OneTransition' /\ SeatsAsked' /\ OwnStrategies'
    BY <1>1 DEF AttemptInv, OneTransition, SeatsAsked, OwnStrategies
  <1> QED
    BY <1>4, <1>5, <1>6 DEF AttemptInv

\* How a placing or a discussion may end with a result.
LEMMA ResultCases ==
  ASSUME AttemptInv,
         (\E outcome \in {"pass", "fail"} : RevealAndScore(outcome)) \/ TurnTimeout \/ PlayerLeave
  PROVE  \E outcome \in {"pass", "fail"} :
           /\ Open /\ OnResult(outcome)
           /\ phase' \in {"reveal", "result"} /\ (phase' = "reveal" => phase = "placing")
           /\ run' = IF outcome = "pass" THEN NoRun ELSE run
           /\ attempt' = attempt /\ level' = level /\ version' = version + 1 /\ timer' = 0
  <1>1. ASSUME NEW outcome \in {"pass", "fail"}, RevealAndScore(outcome)
        PROVE  /\ Open /\ OnResult(outcome)
               /\ phase' \in {"reveal", "result"} /\ (phase' = "reveal" => phase = "placing")
               /\ run' = IF outcome = "pass" THEN NoRun ELSE run
               /\ attempt' = attempt /\ level' = level /\ version' = version + 1 /\ timer' = 0
    BY <1>1 DEF RevealAndScore, Open
  <1>2. ASSUME TurnTimeout \/ PlayerLeave
        PROVE  /\ Open /\ OnResult("fail")
               /\ phase' = "result" /\ run' = run
               /\ attempt' = attempt /\ level' = level /\ version' = version + 1 /\ timer' = 0
    BY <1>2 DEF TurnTimeout, PlayerLeave, FailAttempt, Open
  <1> QED
    BY <1>1, <1>2

\* What begins or ends a discussion by a button or a timer.
LEMMA StartCases ==
  ASSUME AttemptInv, (\E l \in Levels : SelectLevel(l)) \/ Retry \/ NextLevel
  PROVE  \E l \in Levels : StartDiscussion(l)
  <1>1. CASE \E l \in Levels : SelectLevel(l)
    BY <1>1 DEF SelectLevel
  <1>2. CASE Retry
    BY <1>2 DEF Retry, AttemptInv, LastAttempt, InGame
  <1>3. CASE NextLevel
    <2>1. level \in Levels
      BY <1>3 DEF NextLevel, AttemptInv, LastAttempt, InGame
    <2>2. level + 1 \in Levels
      BY <1>3, <2>1, LevelAssumption DEF NextLevel, Levels
    <2> QED
      BY <1>3, <2>2 DEF NextLevel
  <1> QED
    BY <1>1, <1>2, <1>3

LEMMA TriggerCases ==
  ASSUME AttemptInv, HostBegins \/ DiscussionTimerFires \/ Reconnect
  PROVE  \/ /\ phase = "discussion" /\ entry.attempt # attempt /\ BeginTransition
            /\ UNCHANGED <<memoryVars, log>>
         \/ /\ timer' \in 0..version
            /\ UNCHANGED <<phase, attempt, run, level, version, shown, transitionVars,
                           memoryVars, log>>
  <1>1. version \in Nat /\ timer \in 0..version
    BY DEF AttemptInv, Typed, TypeOK
  <1>2. CASE HostBegins
    BY <1>1, <1>2 DEF HostBegins, JoinTransition
  <1>3. CASE DiscussionTimerFires
    BY <1>1, <1>3 DEF DiscussionTimerFires, JoinTransition
  <1>4. CASE Reconnect
    BY <1>1, <1>4 DEF Reconnect
  <1> QED
    BY <1>2, <1>3, <1>4

LEMMA NextStep ==
  ASSUME AttemptInv, [Next]_vars
  PROVE  AttemptInv'
  <1>1. CASE (\E l \in Levels : SelectLevel(l)) \/ Retry \/ NextLevel
    BY <1>1, StartCases, StartStep
  <1>2. CASE HostBegins \/ DiscussionTimerFires \/ Reconnect
    BY <1>2, TriggerCases, BeginStep, OnlyTheTimer
  <1>3. CASE \E c \in compiles : StrategySettles(c)
    BY <1>3, SettleStep
  <1>4. CASE (\E outcome \in {"pass", "fail"} : RevealAndScore(outcome)) \/ TurnTimeout \/ PlayerLeave
    <2>1. PICK outcome \in {"pass", "fail"} :
            /\ Open /\ OnResult(outcome)
            /\ phase' \in {"reveal", "result"} /\ (phase' = "reveal" => phase = "placing")
            /\ run' = IF outcome = "pass" THEN NoRun ELSE run
            /\ attempt' = attempt /\ level' = level /\ version' = version + 1 /\ timer' = 0
      BY <1>4, ResultCases
    <2> QED
      BY <2>1, ResultStep
  <1>5. CASE ContinueToResult
    BY <1>5, ContinueStep
  <1>6. ASSUME NEW q \in lessons, NEW useful \in BOOLEAN, LessonsArrive(q, useful)
        PROVE  AttemptInv'
    BY <1>6, LessonsStep
  <1>7. CASE BackToLevelSelect \/ RemovePlayer \/ EndSession \/ RoomEmptied
    BY <1>7, LeavesAre, LeaveStep
  <1>8. CASE UNCHANGED vars
    <2>1. timer' \in 0..version
          /\ UNCHANGED <<phase, attempt, run, level, version, shown, transitionVars, memoryVars, log>>
      BY <1>8 DEF AttemptInv, Typed, TypeOK, vars, roomVars
    <2> QED
      BY <2>1, OnlyTheTimer
  <1> QED
    BY <1>1, <1>2, <1>3, <1>4, <1>5, <1>6, <1>7, <1>8 DEF Next

LEMMA InitiallyTyped == Init => Typed
  <1> SUFFICES ASSUME Init PROVE Typed
    OBVIOUS
  <1>1. MaxAttempts \in Nat /\ LastLevel \in Nat /\ KeptBriefs \in Nat
    BY LevelAssumption, BriefAssumption, AttemptAssumption
  <1>2. <<>> \in Seq(Brief) /\ Len(<<>>) <= KeptBriefs /\ <<>> \in Seq([level : Levels, outcome : {"open", "pass", "fail"}])
    BY <1>1
  <1>3. briefs \in [AttemptIds -> Seq(Brief)] /\ \A r \in AttemptIds : briefs[r] = <<>>
    BY <1>2 DEF Init, NoBriefs
  <1>4. locked \in [Agents -> [attempt : 0..MaxAttempts, from : 0..MaxAttempts, cut : BOOLEAN]]
    <2>1. NoStrategy \in [attempt : 0..MaxAttempts, from : 0..MaxAttempts, cut : BOOLEAN]
      BY <1>1 DEF NoStrategy
    <2> QED
      BY <2>1 DEF Init, NoStrategies
  <1>5. run \in [id : 0..MaxAttempts, level : 0..LastLevel] /\ shown \in [finalizing : BOOLEAN, review : 0..MaxAttempts]
        /\ memory \in [attempt : 0..MaxAttempts, run : 0..MaxAttempts, level : 0..LastLevel,
                       inherited : 0..MaxAttempts]
    BY <1>1 DEF Init, NoRun, Quiet, NoMemory
  <1>6. phase \in {"lobby", "discussion", "placing", "reveal", "result"}
        /\ attempt \in 0..MaxAttempts /\ level \in 0..LastLevel /\ version \in Nat /\ timer \in 0..version
        /\ owners = {} /\ entry = NoEntry /\ compiles = {} /\ finalized = {} /\ lessons = {}
        /\ begins \in Nat /\ log = <<>>
    BY <1>1 DEF Init
  <1> QED
    BY <1>2, <1>3, <1>4, <1>5, <1>6 DEF Typed, TypeOK

LEMMA Initially == Init => AttemptInv
  <1> SUFFICES ASSUME Init PROVE AttemptInv
    OBVIOUS
  <1>1. Typed
    BY InitiallyTyped
  <1>2. LastAttempt /\ RunOfOneLevel /\ BriefsOfDefeats /\ BriefOfSameLevel
    <2>1. Len(log) = 0 /\ MaxAttempts \in Nat
      BY AttemptAssumption DEF Init
    <2> QED
      BY <2>1 DEF Init, LastAttempt, InGame, Open, RunOfOneLevel, BriefsOfDefeats,
                  BriefOfSameLevel, NoRun, NoMemory, NoBriefs
  <1>3. ResultIsReviewed /\ OneTransition /\ SeatsAsked /\ OwnStrategies
    BY DEF Init, ResultIsReviewed, OneTransition, SeatsAsked, OwnStrategies
  <1> QED
    BY <1>1, <1>2, <1>3 DEF AttemptInv

LEMMA AttemptInvariant == Spec => []AttemptInv
  BY Initially, NextStep, PTL DEF Spec

-----------------------------------------------------------------------------
(* The theorems. *)

\* Cards are placed with the strategies that every agent locked for this very
\* attempt (finalizeDiscussion in agent/runtime.ts under
\* beginPlacementWithTimers in registerHandlers.ts).
THEOREM StrategiesAreOwn == Spec => []OwnStrategies
  <1>1. AttemptInv => OwnStrategies
    BY DEF AttemptInv
  <1> QED
    BY <1>1, AttemptInvariant, PTL

\* A retry inherits what was learnt from its own defeats, and a result on the
\* screen is reviewed (agent/memory/attemptMemoryStore.ts).
THEOREM RetriesAlwaysLearn == Spec => []RetriesLearn
  <1>1. AttemptInv => RetriesLearn
    BY DEF AttemptInv, Typed, RetriesLearn
  <1> QED
    BY <1>1, AttemptInvariant, PTL

\* Only a transition of the attempt that is being discussed deals its cards
\* (the tokens that beginPlacementWithTimers checks after its await).
THEOREM CardsDealtOnPurpose == Spec => DealtOnPurpose
  <1>1. ASSUME AttemptInv, [Next]_vars, phase # "placing", phase' = "placing"
        PROVE  Agents = {} \/ \E o \in owners \ owners' : o.attempt = attempt /\ attempt' = attempt
    <2>1. CASE (\E l \in Levels : SelectLevel(l)) \/ Retry \/ NextLevel
      BY <1>1, <2>1, StartCases DEF StartDiscussion
    <2>2. CASE HostBegins \/ DiscussionTimerFires \/ Reconnect
      BY <1>1, <2>2, TriggerCases DEF BeginTransition
    <2>3. ASSUME NEW c \in compiles, StrategySettles(c)
          PROVE  \E o \in owners \ owners' : o.attempt = attempt /\ attempt' = attempt
      <3>1. PICK o : o = CHOOSE p \in owners : p.id = c.owner
        OBVIOUS
      <3>2. o \in owners
        BY <1>1, <3>1, OwnerOfStrategy DEF AttemptInv, Typed
      <3>3. Finish(o)
        BY <1>1, <2>3, <3>1 DEF StrategySettles, roomVars
      <3>4. IsCurrent(o) /\ o \notin owners' /\ attempt' = attempt
        BY <1>1, <3>3 DEF Finish
      <3> QED
        BY <3>2, <3>4 DEF IsCurrent
    <2>4. CASE (\E outcome \in {"pass", "fail"} : RevealAndScore(outcome)) \/ TurnTimeout \/ PlayerLeave
      BY <1>1, <2>4, ResultCases
    <2>5. CASE ContinueToResult
      BY <1>1, <2>5 DEF ContinueToResult
    <2>6. ASSUME NEW q \in lessons, NEW useful \in BOOLEAN, LessonsArrive(q, useful)
          PROVE  FALSE
      BY <1>1, <2>6 DEF LessonsArrive, roomVars
    <2>7. CASE BackToLevelSelect \/ RemovePlayer \/ EndSession \/ RoomEmptied
      BY <1>1, <2>7, LeavesAre DEF Leaves
    <2>8. CASE UNCHANGED vars
      BY <1>1, <2>8 DEF vars, roomVars
    <2> QED
      BY <1>1, <2>1, <2>2, <2>3, <2>4, <2>5, <2>6, <2>7, <2>8 DEF Next
  <1>2. AttemptInv /\ [Next]_vars =>
          [phase # "placing" /\ phase' = "placing" =>
             \/ Agents = {}
             \/ \E o \in owners \ owners' : o.attempt = attempt /\ attempt' = attempt]_vars
    BY <1>1
  <1> QED
    BY <1>2, AttemptInvariant, PTL DEF Spec, DealtOnPurpose

\* No step but the lessons' own teaches a brief, and never one that a retry
\* was given (enrichRetryBrief).
THEOREM InheritedBriefsAreFixed == Spec => InheritedBriefIsFixed
  <1>1. ASSUME AttemptInv, [Next]_vars, memory.inherited # 0, memory' = memory,
               ~Taught(memory.inherited)
        PROVE  ~Taught(memory.inherited)'
    <2>1. memory.inherited # memory.attempt
      <3>1. memory.inherited \in Nat /\ memory.attempt \in Nat
        BY <1>1, Fields DEF AttemptInv, Typed
      <3> QED
        BY <1>1, <3>1 DEF AttemptInv, LastAttempt
    <2>2. ASSUME \A r \in AttemptIds : \A i \in DOMAIN briefs'[r] :
                   \/ ~briefs'[r][i].taught
                   \/ briefs'[r][i].source = memory.attempt
                   \/ \E j \in DOMAIN briefs[r] : briefs'[r][i] = briefs[r][j]
          PROVE  ~Taught(memory.inherited)'
      BY <1>1, <2>1, <2>2 DEF Taught
    <2>3. CASE briefs' = briefs
      BY <1>1, <2>3 DEF Taught
    <2>4. CASE (\E l \in Levels : SelectLevel(l)) \/ Retry \/ NextLevel
      BY <1>1, <2>3, <2>4, StartCases DEF StartDiscussion
    <2>5. CASE HostBegins \/ DiscussionTimerFires \/ Reconnect
      BY <1>1, <2>3, <2>5, TriggerCases DEF memoryVars
    <2>6. CASE \E c \in compiles : StrategySettles(c)
      BY <2>3, <2>6 DEF StrategySettles
    <2>7. CASE (\E outcome \in {"pass", "fail"} : RevealAndScore(outcome)) \/ TurnTimeout \/ PlayerLeave
      <3>1. PICK outcome \in {"pass", "fail"} : Open /\ OnResult(outcome)
        BY <1>1, <2>7, ResultCases
      <3>2. \A r \in AttemptIds : \A i \in DOMAIN briefs'[r] :
              \/ briefs'[r][i] = [source |-> attempt, taught |-> FALSE]
              \/ \E j \in DOMAIN briefs[r] : briefs'[r][i] = briefs[r][j]
        BY <1>1, <3>1, ResultBriefs
      <3> QED
        BY <2>2, <3>2
    <2>8. CASE ContinueToResult
      BY <2>3, <2>8 DEF ContinueToResult, memoryVars
    <2>9. ASSUME NEW q \in lessons, NEW useful \in BOOLEAN, LessonsArrive(q, useful)
          PROVE  ~Taught(memory.inherited)'
      <3>1. \A r \in AttemptIds :
              /\ DOMAIN briefs'[r] = DOMAIN briefs[r]
              /\ \A i \in DOMAIN briefs[r] :
                   /\ briefs'[r][i].source = briefs[r][i].source
                   /\ briefs'[r][i].taught = briefs[r][i].taught \/ briefs[r][i].source = memory.attempt
        BY <1>1, <2>9, LessonsStep
      <3> QED
        BY <1>1, <2>1, <3>1 DEF Taught
    <2>10. CASE BackToLevelSelect \/ RemovePlayer \/ EndSession \/ RoomEmptied
      <3>1. briefs' = NoBriefs \/ briefs' = briefs \/ briefs' = [briefs EXCEPT ![run.id] = <<>>]
        BY <1>1, <2>10, LeavesAre DEF Leaves
      <3>2. \A r \in AttemptIds : briefs'[r] = <<>> \/ briefs'[r] = briefs[r]
        BY <1>1, <3>1 DEF NoBriefs, AttemptInv, Typed
      <3> QED
        BY <2>2, <3>2
    <2>11. CASE UNCHANGED vars
      BY <2>3, <2>11 DEF vars, memoryVars
    <2> QED
      BY <1>1, <2>4, <2>5, <2>6, <2>7, <2>8, <2>9, <2>10, <2>11 DEF Next
  <1>2. AttemptInv /\ [Next]_vars =>
          [memory.inherited # 0 /\ memory' = memory /\ ~Taught(memory.inherited) =>
             ~Taught(memory.inherited)']_vars
    BY <1>1
  <1> QED
    BY <1>2, AttemptInvariant, PTL DEF Spec, InheritedBriefIsFixed

=============================================================================
