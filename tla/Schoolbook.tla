---------------------------- MODULE Schoolbook -----------------------------
(***************************************************************************)
(* What a compression must compute, as the tests' own references do        *)
(* (Schedule::expand, state_at): a word at a time, the state moved by      *)
(* hand.  These are history variables that the backends' modules advance   *)
(* beside the code's own state, and the runs compare the two.              *)
(***************************************************************************)
EXTENDS Lanes, Sequences

(* A block; where it starts; what memory holds, of the block before or of  *)
(* none; and a candidate: its stored step, and its message difference.     *)
CONSTANT Inputs

ASSUME InputsAssumption ==
  Inputs \subseteq [m : [1 .. 16 -> Word], ihv : State, stale : Words, step : {58, 65}, dm : Words]

VARIABLES
  input,
  words,    (* the schedule so far, word t at t + 1                         *)
  trail,    (* the states so far, the one before step t at t + 1            *)
  partner   (* the partner's state, in the recompression                    *)

school == <<words, trail>>

W(t) == words[t + 1]
StateAt(t) == trail[t + 1]

(* Schedule::expand.  The history stops with the last word.                *)
OneWordOn(ws) ==
  LET t == Len(ws) + 1
  IN IF t > 80 THEN ws
     ELSE Append(ws, Rol(1, Xor(Xor(Xor(ws[t - 3], ws[t - 8]), ws[t - 14]), ws[t - 16])))

(* state_at.                                                               *)
OneStepOn(tr) == Append(tr, Step(Len(tr) - 1, tr[Len(tr)], words[Len(tr)]))

(* A group of either.                                                      *)
FourWordsOn == words' = OneWordOn(OneWordOn(OneWordOn(OneWordOn(words))))
FourStepsOn == trail' = OneStepOn(OneStepOn(OneStepOn(OneStepOn(trail))))

SchoolStarts ==
  /\ input \in Inputs
  /\ words = input.m
  /\ trail = <<input.ihv>>
  /\ partner = input.ihv

-----------------------------------------------------------------------------
(* The candidate's recompression: the words of the partner, and four steps *)
(* over them.                                                              *)
PartnerWord(t) == Xor(W(t), input.dm[t])

PartnerFourOn(t) ==
  partner' = Step(t + 3, Step(t + 2, Step(t + 1, Step(t, partner,
               PartnerWord(t)), PartnerWord(t + 1)), PartnerWord(t + 2)), PartnerWord(t + 3))

-----------------------------------------------------------------------------
(* What both backends with SHA-1 instructions leave to code they share     *)
(* (src/block/rounds.rs), over the words in memory: word t is memory[t].   *)

BoundaryStep == IF input.step = 58 THEN 60 ELSE 64

(* partner_boundary, which Recompression checks.                           *)
BoundaryState(s, memory) ==
  LET partners(t) == Xor(memory[t], input.dm[t])
  IN IF input.step = 58 THEN Step(59, Step(58, s, partners(58)), partners(59))
     ELSE Unstep(64, s, partners(64))

(* ensure_states, once both states are in order: at 60 and 64.             *)
StatesFrom6064(s60, s64, memory) ==
  [state_58 |-> IF input.step = 58 THEN Unstep(58, Unstep(59, s60, memory[59]), memory[58]) ELSE s60,
   state_65 |-> Step(64, s64, memory[64])]
=============================================================================
