-------------------------- MODULE MCRecompression --------------------------
(***************************************************************************)
(* Recompression over words of eight bits: a candidate that is an attack   *)
(* and two that miss it by one or by all words, for each stored step.      *)
(***************************************************************************)
EXTENDS Recompression, Words

M1 == [t \in 0 .. 79 |-> Scramble(3, t)]

(* A difference with words that are zero, as those of the DV tables.       *)
Dm == [t \in 0 .. 79 |-> IF t % 3 = 0 THEN Scramble(4, t) ELSE 0]

(* Two states of one compression of the partner, and what it ends on.      *)
PartnerState(step) ==
  IF step = 58 THEN <<176, 167, 94, 48, 35>> ELSE <<183, 100, 0, 165, 128>>
PartnerEnd == <<105, 14, 126, 108, 52>>

MCCandidates ==
  { [step |-> step, m1 |-> M1, dm |-> Dm, state |-> PartnerState(step),
     chaining_out |-> Difference(PartnerEnd, miss)] :
      step \in {58, 65},
      miss \in {<<0, 0, 0, 0, 0>>, <<0, 0, 0, 0, 128>>, <<1, 2, 3, 4, 5>>} }
=============================================================================
