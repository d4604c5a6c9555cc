---------------------------- MODULE MCRuleReader ----------------------------
(***************************************************************************)
(* Two DVs, one with two groups and one with a group of three, with bits   *)
(* in common; and a C that also wants one bit set, or adds up three.       *)
(***************************************************************************)
EXTENDS RuleReader

Ties(d) ==
  IF d = 0 THEN {<<{0, 1}, 0>>, <<{2, 3}, 1>>} ELSE {<<{1, 2}, 1>>, <<{2, 4}, 0>>}

MCUpstreams ==
  { [d \in 0 .. 1 |-> IF d = 1 THEN Ties(1) \cup more ELSE Ties(0)] :
      more \in {{}, {<<{3}, 1>>}, {<<{0, 1, 3}, 0>>}} }

MCMessages == {{}, {0, 1, 2, 4}, {1, 3}}
=============================================================================
