--------------------------- MODULE MCBlockDetect ---------------------------
(***************************************************************************)
(* BlockDetect on instances: four DVs, two of each step, and blocks that   *)
(* are clean, kept by the filter though clean, attacks under one DV or     *)
(* another, or under two, some of them only after some chaining values.    *)
(***************************************************************************)
EXTENDS BlockDetect

MCChaining == 0 .. 6
MCBlocks == {"clean", "suspect", "attack58", "late", "partial"}
MCDvs == 0 .. 3
MCDvStep(dv) == IF dv \in {0, 2} THEN 65 ELSE 58

MCFeed(hh, b) ==
  LET add == CASE b = "clean" -> 1 [] b = "suspect" -> 2
               [] b = "attack58" -> 3 [] b = "late" -> 4
               [] b = "partial" -> 5
  IN (2 * hh + add) % 7

MCFilter(b) ==
  CASE b = "clean" -> {}
    [] b = "suspect" -> {0, 1, 2, 3}
    [] b = "attack58" -> {0, 3}
    [] b = "late" -> {1, 2}
    [] b = "partial" -> {0, 1}

MCKind(hh, b, dv) ==
  CASE b = "attack58" /\ dv = 3 -> "full"
    [] b = "late" /\ dv = 2 /\ hh % 2 = 0 -> "full"
    [] b = "partial" /\ dv = 1 /\ hh % 3 = 0 -> "reduced"
    [] OTHER -> "none"

MCInputs == {<<b, b>> : b \in MCBlocks} \cup {<<"suspect", "attack58", "clean">>,
             <<"attack58", "late">>, <<"partial", "late">>}

MCCpus == {[arch |-> "x86", sha |-> TRUE, sse2 |-> TRUE],
           [arch |-> "x86", sha |-> FALSE, sse2 |-> TRUE],
           [arch |-> "x86", sha |-> FALSE, sse2 |-> FALSE],
           [arch |-> "aarch64", sha |-> TRUE, sse2 |-> FALSE],
           [arch |-> "other", sha |-> FALSE, sse2 |-> FALSE]}
=============================================================================
