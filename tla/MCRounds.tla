------------------------------ MODULE MCRounds ------------------------------
(***************************************************************************)
(* Rounds over words of eight bits: every program, on two schedules.       *)
(***************************************************************************)
EXTENDS Rounds, Words

MCState(seed) == <<Scramble(seed, 1), Scramble(seed, 2), Scramble(seed, 3),
                   Scramble(seed, 4), Scramble(seed, 5)>>

MCInputs ==
  { [w |-> [t \in 0 .. 79 |-> Scramble(seed, t)],
     first |-> MCState(seed + 1), second |-> MCState(seed + 2)] :
      seed \in {1, 6} }
=============================================================================
