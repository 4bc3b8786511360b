------------------------------ MODULE Contract ------------------------------
(***************************************************************************)
(* What a discussion leaves behind: the facts that agents extract from it  *)
(* (server/src/agent/entities.ts), the public contract that is compiled    *)
(* from them (contract/compile.ts), the strategy that each agent locks     *)
(* (strategyPlanner.ts, strategyFallback.ts, finalizeDiscussion in         *)
(* runtime.ts, memory/attemptMemoryStore.ts).                              *)
(*                                                                         *)
(* A message is its index in the chat.  A view is what a model is shown of *)
(* it: the ids of the messages, those by people, and those by each seat.   *)
(* A rule names the seats it binds (none stands for all), the segments, in *)
(* the order in which they were given, and one value for its parameters.   *)
(***************************************************************************)
EXTENDS Naturals, Sequences, FiniteSets

Hard == "hard_commitment"
Strong == "strong_preference"
Unresolved == "unresolved"

-----------------------------------------------------------------------------
(* Facts: [kind, entity, attribute, draft, cites, certainty, sources]. *)

SameSubject(f, g) == f.kind = g.kind /\ f.entity = g.entity /\ f.attribute = g.attribute

\* Rivals say something else of the same attribute of the same entity.
Rivals(facts, f) ==
  {i \in DOMAIN facts :
     SameSubject(facts[i], f) /\ <<facts[i].draft, facts[i].cites>> # <<f.draft, f.cites>>}

\* upsertFact: no source, no fact; every fact is a new one.
Upserted(facts, f) == IF f.sources = {} THEN facts ELSE Append(facts, f)

\* Fault: the facts that were there keep their certainty.
IngestedAlone(facts, f) ==
  Upserted(facts, IF Rivals(facts, f) = {} THEN f ELSE [f EXCEPT !.certainty = "conflicted"])

\* ingestEntityCandidates: rivals are conflicted, all of them.
Ingested(facts, f) ==
  LET rivals == Rivals(facts, f)
      Conflicted(g) == [g EXCEPT !.certainty = "conflicted"]
  IN  Upserted([i \in DOMAIN facts |->
                  IF i \in rivals /\ f.sources # {} THEN Conflicted(facts[i]) ELSE facts[i]],
               IF rivals = {} THEN f ELSE Conflicted(f))

FactsOf(facts, certainty) == {facts[i] : i \in {j \in DOMAIN facts : facts[j].certainty = certainty}}
SourcesOf(some) == UNION {f.sources : f \in some}

-----------------------------------------------------------------------------
(* The public contract. *)

\* Messages of the view that stand behind a fact, by its own or its rule's account.
Cited(f, view) == (f.sources \cup f.cites) \cap view.ids

Confirmed(f, view) == f.attribute = "confirmed_rule" /\ Cited(f, view) \cap view.people # {}

\* One rule per fact that is a rule, is not conflicted and cites the view.
ClaimedRules(facts, view) ==
  {[id |-> <<"fact", i>>,
    type |-> facts[i].draft.type, seats |-> facts[i].draft.seats,
    segs |-> facts[i].draft.segs, param |-> facts[i].draft.param,
    strength |-> IF Confirmed(facts[i], view) THEN Hard
                 ELSE IF facts[i].draft.strength = Unresolved THEN Unresolved
                 ELSE Strong,
    sources |-> Cited(facts[i], view)] :
      i \in {j \in DOMAIN facts : /\ facts[j].kind = "strategy_rule"
                                  /\ facts[j].certainty # "conflicted"
                                  /\ Cited(facts[j], view) # {}}}

\* What is left of a list when it is sorted: how often each of its members occurs.
Sorted(list) ==
  [v \in {list[i] : i \in DOMAIN list} |-> Cardinality({i \in DOMAIN list : list[i] = v})]

\* semanticKey: a seat has one assignment, whatever its segments.
SemanticKey(r) ==
  <<r.type, r.seats, Sorted(IF r.type = "segment_assignment" THEN <<>> ELSE r.segs)>>

\* The segments as they were given.
SemanticValue(r) == <<r.segs, r.param>>

\* compilePublicContract: claims that differ on one key are all unresolved.
Compiled(facts, view) ==
  LET claimed == ClaimedRules(facts, view)
      Contested(r) == \E q \in claimed : /\ SemanticKey(q) = SemanticKey(r)
                                         /\ SemanticValue(q) # SemanticValue(r)
  IN  {IF Contested(r) THEN [r EXCEPT !.strength = Unresolved] ELSE r : r \in claimed}

Binds(r, seat) == r.seats = {} \/ seat \in r.seats

-----------------------------------------------------------------------------
(* The strategy of a seat. *)

\* A commitment stands on a message of somebody else behind an explicit fact.
Agreed(r, seat, facts, view) ==
  (r.sources \cap view.ids \cap
     SourcesOf({f \in FactsOf(facts, "explicit") : f.kind \in {"commitment", "strategy_rule"}}))
    \ view.by[seat] # {}

\* compileForSeat: how much of a rule that the model proposes is believed.
Believed(r, seat, facts, view) ==
  LET known == r.sources \cap view.ids
      capped == IF r.type = "custom" /\ r.strength \in {Hard, Strong}
                THEN "suggestion" ELSE r.strength
      agreed == IF capped = Hard /\ ~Agreed(r, seat, facts, view) THEN Unresolved ELSE capped
  IN  [r EXCEPT !.sources = known,
                !.strength = IF known \cap SourcesOf(FactsOf(facts, "conflicted")) # {}
                             THEN Unresolved ELSE agreed]

\* buildPublicFactsFallback: the explicit facts, word for word; nobody is
\* bound by them.
Fallback(facts, seat) ==
  {[id |-> <<seat, i>>,
    type |-> IF facts[i].kind = "strategy_rule" THEN facts[i].draft.type ELSE "custom",
    seats |-> IF facts[i].kind = "strategy_rule" THEN facts[i].draft.seats ELSE {},
    segs |-> IF facts[i].kind = "strategy_rule" THEN facts[i].draft.segs ELSE <<>>,
    param |-> facts[i].draft.param,
    strength |-> IF facts[i].kind # "strategy_rule" THEN "suggestion"
                 ELSE IF facts[i].draft.strength = Unresolved THEN Unresolved
                 ELSE Strong,
    sources |-> facts[i].sources] :
      i \in {j \in DOMAIN facts : facts[j].certainty = "explicit"}}

\* What finalizeDiscussion locks: the contract first, then the seat's own
\* rules on other subjects.
LockedRules(own, contract, seat) ==
  LET public == {r \in contract : Binds(r, seat)}
      Same(r, q) == r.type = q.type /\ r.seats = q.seats /\ Sorted(r.segs) = Sorted(q.segs)
  IN  public \cup {r \in own : ~\E q \in public : Same(r, q)}

\* lockStrategy: the rules that become pendingCommitments of the seat.
Commitments(rules, seat) == {r \in rules : r.strength = Hard /\ Binds(r, seat)}
=============================================================================
