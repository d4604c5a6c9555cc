---------------------------- MODULE BlockDetect ----------------------------
(***************************************************************************)
(* block::compress (src/block.rs): the loop over the blocks of a call,     *)
(* with collision detection wrapped around each, over the backends of      *)
(* src/block/backend.rs.                                                   *)
(*                                                                         *)
(* The scratch holds the schedule and two stored states, and lives for the *)
(* whole call: every block overwrites it.  The hardware backends store     *)
(* their states at steps 60 and 64, sha_ni in its own form, and            *)
(* ensure_states finishes those only for a block with a candidate, step 58 *)
(* only if a candidate starts there.  So what a stored state is depends on *)
(* the backend and on how far the block has come: it is modelled by which  *)
(* state it is, of which block, at which step, in which form.  A step of   *)
(* the compression taken from anything else gives garbage, and a test on   *)
(* garbage may say anything.                                               *)
(***************************************************************************)
EXTENDS BlockSpec

CONSTANTS
  Filter(_),      (* the DVs ubc_check keeps for a block's schedule         *)
  DvStep(_),      (* recompress_from, 58 or 65                              *)
  NoBlock,        (* whose schedule Schedule::zeroed() is                   *)
  Cpus            (* what the build and the CPU offer Backend::new          *)

ASSUME StepAssumption == \A dv \in Dvs : DvStep(dv) \in {58, 65}

(* Conjecture 3 of the paper, on which the crate's own docs rest: a block  *)
(* that recompression would flag under a DV is kept by the filter for it.  *)
ASSUME FilterAssumption ==
  \A b \in Blocks :
    /\ Filter(b) \subseteq Dvs
    /\ \A hh \in Chaining, dv \in Dvs :
         Kind(hh, b, dv) # "none" => dv \in Filter(b)

ASSUME NoBlockAssumption == NoBlock \notin Blocks

ASSUME CpuAssumption ==
  Cpus \subseteq [arch : {"x86", "aarch64", "other"}, sha : BOOLEAN,
                  sse2 : BOOLEAN]

VARIABLES
  backend,    (* the Repr Backend::new or Backend::scalar selected          *)
  phase,      (* where in an iteration the call is                          *)
  ihv1,       (* the chaining value before the block                        *)
  m1,         (* whose schedule the scratch holds                           *)
  state_58,   (* the stored states of the scratch                           *)
  state_65,
  remaining   (* the candidates attacked() has not looked at                *)

scratch == <<m1, state_58, state_65>>
vars == <<settings, todo, h, found, backend, phase, ihv1, scratch, remaining>>

Phases == {"next", "filter", "ensure", "walk", "mitigate1", "mitigate2"}
Backends == {"sha_ni", "armv8", "sse2", "scalar"}

(* "reversed" is sha_ni's own form, "garbage" a state of no block.         *)
Stored == [h : Chaining, block : Blocks \cup {NoBlock}, step : {58, 60, 64, 65},
           form : {"plain", "reversed", "garbage"}]
Settings == [safe_hash : BOOLEAN, ubc_check : BOOLEAN, reduced : BOOLEAN]

-----------------------------------------------------------------------------
(* Backend::new, and Backend::scalar where the builder asks for it.        *)
BackendOf(cpu, scalar_backend) ==
  IF scalar_backend THEN "scalar"
  ELSE IF cpu.arch = "x86" /\ cpu.sha THEN "sha_ni"
  ELSE IF cpu.arch = "aarch64" /\ cpu.sha THEN "armv8"
  ELSE IF cpu.arch = "x86" /\ cpu.sse2 THEN "sse2"
  ELSE "scalar"

(* `step` steps of block b after chaining value hh.                        *)
State(hh, b, step, form) == [h |-> hh, block |-> b, step |-> step, form |-> form]

(* The state `from` steps in, moved to `to` with block b's schedule words. *)
Moved(s, b, from, to) ==
  IF s.form = "plain" /\ s.step = from /\ s.block = b
  THEN [s EXCEPT !.step = to]
  ELSE [s EXCEPT !.form = "garbage"]

(* sha_ni's E + W with the W of step t of block b taken off.               *)
Unreversed(s, b, t) ==
  IF s.form = "reversed" /\ s.step = t /\ s.block = b
  THEN [s EXCEPT !.form = "plain"]
  ELSE [s EXCEPT !.form = "garbage"]

(* Backend::ensure_states on state_58 ...                                  *)
Finished58(k, s, b, need_58) ==
  LET plain == IF k = "sha_ni" THEN Unreversed(s, b, 60) ELSE s
  IN IF k \in {"sse2", "scalar"} \/ ~ need_58
     THEN plain
     ELSE Moved(plain, b, 60, 58)

(* ... and on state_65.                                                    *)
Finished65(k, s, b) ==
  LET plain == IF k = "sha_ni" THEN Unreversed(s, b, 64) ELSE s
  IN IF k \in {"sse2", "scalar"} THEN plain ELSE Moved(plain, b, 64, 65)

(* Where attacked() recompresses from: the stored state dv names.          *)
From(dv) == IF DvStep(dv) = 58 THEN state_58 ELSE state_65

(* is_attack, or with reduced_round_collision the question attacked() asks *)
(* of recompression_step: the verdicts that the state it starts from, the  *)
(* schedule and the chaining values allow.                                 *)
Verdicts(dv) ==
  IF /\ From(dv) = State(ihv1, m1, DvStep(dv), "plain")
     /\ h = Feed(ihv1, m1)
  THEN {Counts(settings, Kind(ihv1, m1, dv))}
  ELSE BOOLEAN

(* remaining.trailing_zeros().                                             *)
Lowest(set) == CHOOSE dv \in set : \A other \in set : dv <= other

(* Mutants, here and below: each is the definition that follows with a     *)
(* plausible bug, and a run shows which property it breaks.                *)
WithoutLowest_Kept(set) == set

(* remaining &= remaining - 1.                                             *)
WithoutLowest(set) == set \ {Lowest(set)}

NeedsStep58_OfLowest(set) == DvStep(Lowest(set)) = 58

(* candidates & STEP58_MASK != 0.                                          *)
NeedsStep58(set) == \E dv \in set : DvStep(dv) = 58

-----------------------------------------------------------------------------
Init ==
  /\ BlockInit
  /\ settings \in Settings
  /\ \E cpu \in Cpus, scalar_backend \in BOOLEAN :
       backend = BackendOf(cpu, scalar_backend)
  /\ phase = "next"
  /\ ihv1 = InitialH
  /\ m1 = NoBlock
  /\ state_58 = State(InitialH, NoBlock, 58, "garbage")
  /\ state_65 = State(InitialH, NoBlock, 65, "garbage")
  /\ remaining = {}

(* A call of block::compress, with a new scratch.                          *)
Call(bs) ==
  /\ phase = "next" /\ todo = << >>
  /\ todo' = bs
  /\ m1' = NoBlock
  /\ state_58' = State(InitialH, NoBlock, 58, "garbage")
  /\ state_65' = State(InitialH, NoBlock, 65, "garbage")
  /\ UNCHANGED <<settings, h, found, backend, phase, ihv1, remaining>>

(* Inner::reset, between two calls.                                        *)
Reset ==
  /\ phase = "next" /\ todo = << >>
  /\ h' = InitialH
  /\ found' = FALSE
  /\ UNCHANGED <<settings, todo, backend, phase, ihv1, scratch, remaining>>

(* backend.compress_spill.                                                 *)
CompressSpill ==
  LET b == Head(todo)
      form == IF backend = "sha_ni" THEN "reversed" ELSE "plain"
      hardware == backend \in {"sha_ni", "armv8"}
  IN
  /\ phase = "next" /\ todo # << >>
  /\ ihv1' = h
  /\ h' = Feed(h, b)
  /\ m1' = b
  /\ state_58' = State(h, b, IF hardware THEN 60 ELSE 58, form)
  /\ state_65' = State(h, b, IF hardware THEN 64 ELSE 65, form)
  /\ phase' = "filter"
  /\ UNCHANGED <<settings, todo, found, backend, remaining>>

Filtered(b) == IF settings.ubc_check THEN Filter(b) ELSE Dvs

(* The iteration ends and the loop goes on to the next block.              *)
EndBlock ==
  /\ todo' = Tail(todo)
  /\ phase' = "next"

(* ubc_check, or every DV without it.                                      *)
RunFilter ==
  /\ phase = "filter"
  /\ remaining' = Filtered(m1)
  /\ IF remaining' = {} THEN EndBlock ELSE phase' = "ensure" /\ UNCHANGED todo
  /\ UNCHANGED <<settings, h, found, backend, ihv1, scratch>>

(* attacked() has its states finished.                                     *)
EnsureStates ==
  /\ phase = "ensure"
  /\ state_58' = Finished58(backend, state_58, m1, NeedsStep58(remaining))
  /\ state_65' = Finished65(backend, state_65, m1)
  /\ phase' = "walk"
  /\ UNCHANGED <<settings, todo, h, found, backend, ihv1, m1, remaining>>

(* A candidate that is no attack.                                          *)
Dismiss ==
  /\ phase = "walk" /\ remaining # {}
  /\ FALSE \in Verdicts(Lowest(remaining))
  /\ remaining' = WithoutLowest(remaining)
  /\ UNCHANGED <<settings, todo, h, found, backend, phase, ihv1, scratch>>

(* A candidate that is one: attacked() returns without the others, and the *)
(* collision is remembered.                                                *)
Flag ==
  /\ phase = "walk" /\ remaining # {}
  /\ TRUE \in Verdicts(Lowest(remaining))
  /\ found' = TRUE
  /\ remaining' = {}
  /\ IF settings.safe_hash THEN phase' = "mitigate1" /\ UNCHANGED todo
     ELSE EndBlock
  /\ UNCHANGED <<settings, h, backend, ihv1, scratch>>

(* No candidate is left: attacked() returns false.                         *)
NotAttacked ==
  /\ phase = "walk" /\ remaining = {}
  /\ EndBlock
  /\ UNCHANGED <<settings, h, found, backend, ihv1, scratch, remaining>>

Mitigate_Once ==
  /\ phase \in {"mitigate1", "mitigate2"}
  /\ h' = Feed(h, m1)
  /\ EndBlock
  /\ UNCHANGED <<settings, found, backend, ihv1, scratch, remaining>>

(* The two compression_w of the mitigation.                                *)
Mitigate ==
  /\ phase \in {"mitigate1", "mitigate2"}
  /\ h' = Feed(h, m1)
  /\ IF phase = "mitigate1" THEN phase' = "mitigate2" /\ UNCHANGED todo
     ELSE EndBlock
  /\ UNCHANGED <<settings, found, backend, ihv1, scratch, remaining>>

(* The steps of a call that has begun.                                     *)
Progress ==
  \/ CompressSpill
  \/ RunFilter
  \/ EnsureStates
  \/ Dismiss
  \/ Flag
  \/ NotAttacked
  \/ Mitigate

Next ==
  \/ \E bs \in Inputs : Call(bs)
  \/ Reset
  \/ Progress

Spec == Init /\ [][Next]_vars

(* A call runs on its thread until it returns.                             *)
FairSpec == Spec /\ WF_vars(Progress)
-----------------------------------------------------------------------------
TypeOK ==
  /\ settings \in Settings
  /\ todo \in Seq(Blocks)
  /\ h \in Chaining /\ ihv1 \in Chaining
  /\ found \in BOOLEAN
  /\ backend \in Backends
  /\ phase \in Phases
  /\ m1 \in Blocks \cup {NoBlock}
  /\ state_58 \in Stored /\ state_65 \in Stored
  /\ remaining \in SUBSET Dvs

(* Every candidate that attacked() looks at is recompressed from this      *)
(* block's own state at the step its DV names, with this block's schedule, *)
(* whatever backend stored it and whatever the blocks before left behind.  *)
FromOwnState ==
  phase = "walk" =>
    /\ todo # << >> /\ m1 = Head(todo)
    /\ h = Feed(ihv1, m1)
    /\ \A dv \in remaining : From(dv) = State(ihv1, m1, DvStep(dv), "plain")

(* "Zero or more blocks": a call always returns, having compressed them    *)
(* all, also when every block has all 32 candidates.                       *)
CallReturns == (todo # << >>) ~> (todo = << >> /\ phase = "next")

(***************************************************************************)
(* The inductive invariant: in each phase, what the call has established   *)
(* for the next.                                                           *)
(***************************************************************************)

(* The states the backend stored, as ensure_states will find them.         *)
StoredInv ==
  LET form == IF backend = "sha_ni" THEN "reversed" ELSE "plain"
      hardware == backend \in {"sha_ni", "armv8"}
  IN /\ state_58 = State(ihv1, m1, IF hardware THEN 60 ELSE 58, form)
     /\ state_65 = State(ihv1, m1, IF hardware THEN 64 ELSE 65, form)

IInv ==
  /\ TypeOK
  /\ phase # "next" => todo # << >> /\ m1 = Head(todo)
  /\ phase \in {"filter", "ensure", "walk"} => h = Feed(ihv1, m1)
  /\ phase \in {"filter", "ensure"} => StoredInv
  /\ phase \in {"ensure", "walk"} =>
       \A dv \in Dvs : Counts(settings, Kind(ihv1, m1, dv)) => dv \in remaining
  /\ phase = "walk" =>
       \A dv \in remaining : From(dv) = State(ihv1, m1, DvStep(dv), "plain")

(* The blocks and chaining value that are settled at this point.           *)
SettledTodo ==
  IF phase \in {"mitigate1", "mitigate2"} THEN Tail(todo) ELSE todo

SettledH ==
  IF phase \in {"filter", "ensure", "walk"} THEN ihv1
  ELSE IF phase = "mitigate1" THEN Feed(Feed(h, m1), m1)
  ELSE IF phase = "mitigate2" THEN Feed(h, m1)
  ELSE h

(* Compression with the filter, on any backend, does what compression with *)
(* every attack tested would do.                                           *)
Abstract == INSTANCE BlockSpec WITH todo <- SettledTodo, h <- SettledH

ImplementsBlockSpec == Abstract!BlockSpecification
=============================================================================
