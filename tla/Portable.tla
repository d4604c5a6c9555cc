------------------------------ MODULE Portable ------------------------------
(***************************************************************************)
(* The two compressions without SHA-1 instructions, over whatever the      *)
(* Schedule held before.  scalar expands each word next to the step that   *)
(* uses it; sse2 runs the same rounds over words it computes in groups of  *)
(* four, each spilled a turn or two before the rounds read it.             *)
(*                                                                         *)
(* Both are straight-line code: what is done next follows from how many    *)
(* steps have run and how many groups are spilled.  The renaming the       *)
(* macros do is in Rounds.                                                 *)
(***************************************************************************)
EXTENDS Schoolbook

CONSTANT Builds   (* which compression runs, and which way the array does   *)

(* sse2 is x86 code, where the array is mirrored (Schedule::MIRRORED).     *)
ASSUME BuildsAssumption ==
  /\ Builds \subseteq [backend : {"scalar", "sse2"}, mirrored : BOOLEAN]
  /\ \A b \in Builds : b.backend = "sse2" => b.mirrored

VARIABLES
  build,
  groups,     (* sse2's groups spilled so far                               *)
  s,          (* (A, B, C, D, E)                                            *)
  t,          (* the step to run next                                       *)
  added,      (* whether the state has been added to the chaining value     *)
  v,          (* sse2's groups, held reversed                               *)
  w,          (* the Schedule's array                                       *)
  state_58, state_65,
  ihv

stored == <<state_58, state_65, ihv>>
vars == <<input, build, groups, s, t, added, v, w, stored, partner, school>>

-----------------------------------------------------------------------------
GroupsBefore_Slow(i) == IF 6 + i \div 6 < 20 THEN 6 + i \div 6 ELSE 20

(* compress_spill_sse2: six groups before the first turn of five steps,    *)
(* and one more before each turn after it, while there are any.            *)
GroupsBefore(i) == IF 6 + i \div 5 < 20 THEN 6 + i \div 5 ELSE 20

Sse2 == build.backend = "sse2"

(* A group is due before the step that comes next, or that step is.        *)
GroupDue == Sse2 /\ t < 80 /\ groups < GroupsBefore(t)
StepDue == t < 80 /\ ~GroupDue

(* expand16: as sha1msg1 and sha1msg2 would, by shifts.                    *)
expand16(a, b, c, d) ==
  LET x == XorAll(XorAll(a, alignr8(a, b)), c)
      r == RolAll(1, XorAll(x, UpOneLane(d)))
  IN XorAll(r, RolAll(1, TopToBottom(r)))

GroupWords(k) ==
  IF k < 4 THEN Reversed(<<input.m[4 * k + 1], input.m[4 * k + 2],
                           input.m[4 * k + 3], input.m[4 * k + 4]>>)
  ELSE IF k < 8 THEN expand16(v[k - 4], v[k - 3], v[k - 2], v[k - 1])
  ELSE expand_rol2(v[k - 8], v[k - 7], v[k - 4], v[k - 2], v[k - 1])

Here(i) == At(build.mirrored, i)

Init ==
  /\ SchoolStarts
  /\ build \in Builds
  /\ groups = 0 /\ s = input.ihv /\ t = 0 /\ added = FALSE
  /\ v = [k \in 0 .. 19 |-> Zeros]
  /\ w = input.stale
  /\ state_58 = input.ihv /\ state_65 = input.ihv /\ ihv = input.ihv

(* Step t, on a word that is taken as the macro takes it; and first, where *)
(* t is 58 or 65, the state is stored.                                     *)
RunOver(word) ==
  /\ state_58' = IF t = 58 THEN s ELSE state_58
  /\ state_65' = IF t = 65 THEN s ELSE state_65
  /\ s' = Step(t, s, word)
  /\ t' = t + 1
  /\ words' = OneWordOn(words) /\ trail' = OneStepOn(trail)
  /\ UNCHANGED <<input, build, groups, added, v, ihv, partner>>

(* five!, step!, on the block and on the array.                            *)
RunBlock ==
  /\ StepDue /\ Sse2 /\ t < 16
  /\ RunOver(input.m[t + 1])
  /\ UNCHANGED w

Run ==
  /\ StepDue /\ Sse2 /\ t >= 16
  /\ RunOver(w[Here(t)])
  /\ UNCHANGED w

(* five_load!, step_load!: the block's word is stored as it is used.       *)
RunLoad ==
  /\ StepDue /\ ~Sse2 /\ t < 16
  /\ w' = [w EXCEPT ![Here(t)] = input.m[t + 1]]
  /\ RunOver(input.m[t + 1])

(* five_expand!, step_expand!: and so is each word expanded.               *)
Expanded(i) ==
  Rol(1, Xor(Xor(Xor(w[Here(i - 3)], w[Here(i - 8)]), w[Here(i - 14)]), w[Here(i - 16)]))

RunExpand ==
  /\ StepDue /\ ~Sse2 /\ t >= 16
  /\ w' = [w EXCEPT ![Here(t)] = Expanded(t)]
  /\ RunOver(Expanded(t))

(* A group computed and spilled.                                           *)
RunGroup ==
  /\ GroupDue
  /\ v' = [v EXCEPT ![groups] = GroupWords(groups)]
  /\ w' = Spilled(TRUE, w, 4 * groups, GroupWords(groups))
  /\ groups' = groups + 1
  /\ IF groups < 4 THEN UNCHANGED words ELSE FourWordsOn
  /\ UNCHANGED <<input, build, s, t, added, stored, partner, trail>>

(* add                                                                     *)
RunAdd ==
  /\ t = 80 /\ ~added
  /\ ihv' = Sum(ihv, s)
  /\ added' = TRUE
  /\ UNCHANGED <<input, build, groups, s, t, v, w, state_58, state_65, partner, school>>

Next ==
  \/ RunBlock
  \/ Run
  \/ RunLoad
  \/ RunExpand
  \/ RunGroup
  \/ RunAdd

Spec == Init /\ [][Next]_vars
-----------------------------------------------------------------------------
(* Each step runs on its own word: no group is read before it is spilled,  *)
(* when the array still has a word of the block before.                    *)
EachStepHasItsWord == s = StateAt(t)

(* Both compressions leave the same: the schedule in the array, for the    *)
(* filter and the candidates to read, the digest, and the states at steps  *)
(* 58 and 65.                                                              *)
LeavesDigestAndStates ==
  added =>
    /\ \A i \in 0 .. 79 : w[Here(i)] = W(i)
    /\ ihv = Sum(input.ihv, StateAt(80))
    /\ state_58 = StateAt(58)
    /\ state_65 = StateAt(65)
=============================================================================
