---------------------------- MODULE MCDiscussion ----------------------------
(* Instances of Discussion for TLC. *)
EXTENDS Discussion

MCSpeakers == <<"x", "y">>

Assign(seg) ==
  [type |-> "segment_assignment", seats |-> {"x"}, segs |-> <<seg>>, param |-> 0,
   strength |-> "suggestion"]

Rule(entity, attribute, seg) ==
  [kind |-> "strategy_rule", entity |-> entity, attribute |-> attribute,
   draft |-> Assign(seg), certainty |-> "explicit"]

MCExtracts ==
  <<{Rule("e", "confirmed_rule", 0), Rule("f", "confirmed_rule", 1)}, {}>>

MCProposals ==
  {[seat |-> "x", type |-> "segment_assignment", seats |-> {"x"}, segs |-> <<2>>,
    param |-> 0, strength |-> "hard_commitment"]}
=============================================================================
