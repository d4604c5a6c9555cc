---------------------------- MODULE MCPipelines ----------------------------
(***************************************************************************)
(* Every backend over words of eight bits: a few blocks, each with a       *)
(* candidate of either step whose difference is zero (its own block,       *)
(* always an attack) or not.  scalar runs with the array either way.       *)
(***************************************************************************)
EXTENDS Pipelines, Words

MCBuilds ==
  { [backend |-> "scalar", mirrored |-> mirrored] : mirrored \in BOOLEAN }
    \cup {[backend |-> "sse2", mirrored |-> TRUE]}

Scrambled(seed) == [i \in 0 .. 79 |-> Scramble(seed, i)]
NoDifference == [i \in 0 .. 79 |-> 0]

MCInputs ==
  { [m |-> [i \in 1 .. 16 |-> Scramble(seed, i)],
     ihv |-> <<Scramble(seed + 1, 1), Scramble(seed + 1, 2), Scramble(seed + 1, 3),
               Scramble(seed + 1, 4), Scramble(seed + 1, 5)>>,
     stale |-> Scrambled(seed + 2), step |-> step, dm |-> dm] :
       seed \in {2, 5}, step \in {58, 65}, dm \in {NoDifference, Scrambled(9)} }
=============================================================================
