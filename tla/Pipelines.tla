------------------------------ MODULE Pipelines ------------------------------
(***************************************************************************)
(* A block through whichever compression a build and a CPU have            *)
(* (src/block/backend.rs): scalar, sse2, sha_ni or armv8.  One of them     *)
(* runs; the registers of the others hold nothing.  All four leave their   *)
(* words in the same array, w, and answer to the same Schoolbook.          *)
(***************************************************************************)
EXTENDS Portable

CONSTANT Hardware   (* the backends with SHA-1 instructions, of sha_ni and armv8 *)

ASSUME HardwareAssumption == Hardware \subseteq {"sha_ni", "armv8"}

VARIABLES
  phase, g, abcd, at_60, at_64, state, at, attack,   (* of both               *)
  e0, e1, e_in, held,                                (* sha_ni's              *)
  e, tmp, msg                                        (* armv8's               *)

Ni == INSTANCE ShaNi
Arm == INSTANCE Armv8

both == <<phase, g, abcd, at_60, at_64, state, at, attack>>
ni == <<e0, e1, e_in, held>>
arm == <<e, tmp, msg>>
soft == <<groups, s, t, added, stored>>
all == <<vars, both, ni, arm>>

Unused == << >>

Running(backend) == build.backend = backend

NiIdle == e0 = Unused /\ e1 = Unused /\ e_in = Unused /\ held = Unused
ArmIdle == e = Unused /\ tmp = Unused /\ msg = Unused

HardwareIdle ==
  /\ phase = Unused /\ g = Unused /\ abcd = Unused /\ at_60 = Unused /\ at_64 = Unused
  /\ state = Unused /\ at = Unused /\ attack = Unused
  /\ NiIdle /\ ArmIdle

SoftIdle ==
  /\ groups = Unused /\ s = Unused /\ t = Unused /\ added = Unused
  /\ state_58 = Unused /\ state_65 = Unused /\ ihv = Unused

NiInit ==
  /\ "sha_ni" \in Hardware /\ build = [backend |-> "sha_ni", mirrored |-> TRUE]
  /\ Ni!Init /\ ArmIdle /\ SoftIdle

ArmInit ==
  /\ "armv8" \in Hardware /\ build = [backend |-> "armv8", mirrored |-> FALSE]
  /\ Arm!Init /\ NiIdle /\ SoftIdle /\ v = Unused

SoftInit == Init /\ HardwareIdle

NiNext == Running("sha_ni") /\ Ni!Next /\ UNCHANGED <<build, soft, arm>>
ArmNext == Running("armv8") /\ Arm!Next /\ UNCHANGED <<build, soft, ni, v>>
SoftNext == (Running("scalar") \/ Running("sse2")) /\ Next /\ UNCHANGED <<both, ni, arm>>

AnyInit == NiInit \/ ArmInit \/ SoftInit
AnyNext == NiNext \/ ArmNext \/ SoftNext
AnySpec == AnyInit /\ [][AnyNext]_all
-----------------------------------------------------------------------------
(* Between groups the registers of the hardware spell the state, wherever  *)
(* the fifth word is by then, and on ARMv8 the words and the constant of   *)
(* the next two groups are those set aside (rounds!, group!).              *)
RegistersSpellState ==
  /\ Running("sha_ni") => Ni!RegistersSpellState
  /\ Running("armv8") => Arm!RegistersSpellState

(* "The mirrored layout undoes that for nothing": the words of a block are *)
(* each at their step's place in the array and none is there before its    *)
(* time, though the hardware computes them by fours and ahead; and scalar  *)
(* and sse2 read no word before it is there, when what is there is a word  *)
(* of the block before (spill, compress_spill).                            *)
EveryStepHasItsWord ==
  /\ Running("sha_ni") => Ni!SpilledInStepOrder
  /\ Running("armv8") => Arm!SpilledInStepOrder
  /\ Running("scalar") \/ Running("sse2") => EachStepHasItsWord

(* Whichever runs leaves the same: the digest, the states at steps 58 and  *)
(* 65, and in software the schedule (compress_spill, ensure_states).       *)
AllLeaveTheSame ==
  /\ Running("sha_ni") => Ni!LeavesDigestAndStates
  /\ Running("armv8") => Arm!LeavesDigestAndStates
  /\ Running("scalar") \/ Running("sse2") => LeavesDigestAndStates

(* A candidate's recompression by groups answers what the run of the       *)
(* partner over plain words does (recompress).                             *)
AnswersForPartner ==
  /\ Running("sha_ni") => Ni!AnswersForPartner
  /\ Running("armv8") => Arm!AnswersForPartner
=============================================================================
