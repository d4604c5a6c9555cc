------------------------------ MODULE UbcCheck ------------------------------
(***************************************************************************)
(* The filter itself: ubc_check of src/ubc_check.rs and the four forms of  *)
(* it that codegen/ writes.  Each runs its prefix, a statement or a group  *)
(* of lanes at a time, stops there if no candidate is left, and otherwise  *)
(* runs its tail over the candidates that are.                             *)
(*                                                                         *)
(* A mask is the set of the DVs whose bits are one.                        *)
(***************************************************************************)
EXTENDS DisturbanceVectors, UbcForms

CONSTANTS
  Machines,   (* [target, avx2, scalar_only] the code is built for and runs on *)
  Blocks      (* the blocks it is given, each the set of its one bits        *)

ASSUME UbcCheckAssumption ==
  /\ Machines \subseteq [target : {"aarch64", "x86", "other"},
                         avx2 : BOOLEAN, scalar_only : BOOLEAN]
  /\ Blocks \subseteq SUBSET (0..511)

VARIABLES
  form,    (* the form the dispatch picked                                   *)
  w,       (* the schedule it reads                                          *)
  pc,      (* "prefix", "tail" or "returned"                                 *)
  n,       (* the statement, group or guarded block of the tail next to run  *)
  acc,     (* acc0 and acc1 of a vector form: the DVs cleared, by lane       *)
  mask,    (* the candidates; in a tail, as the prefix left them             *)
  rest,    (* the candidates a table tail has yet to take                    *)
  out      (* the mask a tail is to return                                   *)

vars == <<form, w, pc, n, acc, mask, rest, out>>

(* dispatch!                                                               *)
Dispatch(machine) ==
  IF machine.scalar_only \/ machine.target = "other" THEN "scalar"
  ELSE IF machine.target = "aarch64" THEN "neon"
  ELSE IF machine.avx2 THEN "avx2" ELSE "sse2"

Prefix == [scalar |-> ScalarPrefix, neon |-> NeonPrefix, sse2 |-> Sse2Prefix, avx2 |-> Avx2Prefix]

Width == [neon |-> 4, sse2 |-> 4, avx2 |-> 8]

Init ==
  /\ form \in {Dispatch(machine) : machine \in Machines}
  /\ w \in {ScheduleOf(b) : b \in Blocks}
  /\ pc = "prefix"
  /\ n = 1
  /\ acc = IF form = "scalar" THEN <<>>
           ELSE [i \in 1..2 |-> [lane \in 0 .. Width[form] - 1 |-> {}]]
  /\ mask = DVs
  /\ rest = {}
  /\ out = {}

-----------------------------------------------------------------------------
(* mask &= <condition> | !<dvs>                                            *)
Condition(row) == <<32 * row[1] + row[2], 32 * row[3] + row[4], row[5]>>

ScalarStatement ==
  /\ form = "scalar" /\ pc = "prefix" /\ n <= Len(ScalarPrefix)
  /\ LET row == ScalarPrefix[n]
     IN mask' = IF Holds(w, Condition(row)) THEN mask ELSE mask \ row[6]
  /\ n' = n + 1
  /\ UNCHANGED <<form, w, pc, acc, rest, out>>

(* The x86 schedule runs backwards, so a load hands back the last of its   *)
(* words in lane 0.                                                        *)
LaneStep_Unmirrored(f, first, lane) == first + lane

LaneStep(f, first, lane) ==
  IF f = "neon" THEN first + lane ELSE first + Width[f] - 1 - lane

(* What a lane tests and for whom: splat lists lane 0 first, _mm_set_epi32 *)
(* and _mm256_set_epi32 list it last.                                      *)
Listed(f, lane) == IF f = "neon" THEN lane + 1 ELSE Width[f] - lane

LaneCondition(f, g, lane) ==
  LET bit == g.bit[Listed(f, lane)]
  IN <<32 * LaneStep(f, g.near, lane) + bit + g.ns,
       32 * LaneStep(f, g.far, lane) + bit + g.fs, g.c>>

VectorGroup ==
  /\ form # "scalar" /\ pc = "prefix" /\ n <= Len(Prefix[form])
  /\ LET g == Prefix[form][n]
         missed(lane) == IF Holds(w, LaneCondition(form, g, lane))
                         THEN {} ELSE g.dvs[Listed(form, lane)]
     IN acc' = [acc EXCEPT ![2 - (n % 2)] =
                 [lane \in DOMAIN acc[1] |-> @[lane] \cup missed(lane)]]
  /\ n' = n + 1
  /\ UNCHANGED <<form, w, pc, mask, rest, out>>

(* _mm_shuffle_epi32: the lane each of four is taken from, lane 0 first.   *)
OrShuffled(v, from) == [lane \in 0..3 |-> v[lane] \cup v[from[lane + 1]]]

Folded_LowHalf(f, v) ==
  OrShuffled(OrShuffled([lane \in 0..3 |-> v[lane]], <<2, 3, 0, 1>>), <<1, 0, 3, 2>>)[0]

(* One lane of the accumulators with every lane ORed into it.              *)
Folded(f, v) ==
  CASE f = "avx2" -> OrShuffled(OrShuffled([lane \in 0..3 |-> v[lane] \cup v[lane + 4]],
                                           <<2, 3, 0, 1>>), <<1, 0, 3, 2>>)[0]
    [] f = "sse2" -> OrShuffled(OrShuffled(v, <<2, 3, 0, 1>>), <<1, 0, 3, 2>>)[0]
    [] OTHER -> (v[0] \cup v[2]) \cup (v[1] \cup v[3])

(* The prefix ends, and with no candidate left the check does.             *)
PrefixEnd ==
  /\ pc = "prefix" /\ n > Len(Prefix[form])
  /\ mask' = IF form = "scalar" THEN mask
             ELSE DVs \ Folded(form, [lane \in DOMAIN acc[1] |-> acc[1][lane] \cup acc[2][lane]])
  /\ out' = mask'
  /\ rest' = IF form = "neon" THEN {} ELSE mask'
  /\ pc' = IF mask' = {} THEN "returned" ELSE "tail"
  /\ n' = 1
  /\ UNCHANGED <<form, w, acc>>

-----------------------------------------------------------------------------
TailChecks == [scalar |-> ScalarTailChecks, sse2 |-> Sse2TailChecks, avx2 |-> Avx2TailChecks]
TailSpans == [scalar |-> ScalarTailSpans, sse2 |-> Sse2TailSpans, avx2 |-> Avx2TailSpans]

TailOf_OneShort(f, dv) ==
  LET span == TailSpans[f][dv + 1]
  IN {Condition(TailChecks[f][k]) : k \in span[1] + 1 .. span[1] + span[2] - 1}

(* TAIL_CHECKS[start..start + len]                                         *)
TailOf(f, dv) ==
  LET span == TailSpans[f][dv + 1]
  IN {Condition(TailChecks[f][k]) : k \in span[1] + 1 .. span[1] + span[2]}

(* tail of scalar, sse2 and avx2: the lowest candidate left.               *)
TableTail ==
  /\ pc = "tail" /\ form # "neon" /\ rest # {}
  /\ LET dv == Min(rest)
         dead == \E cond \in TailOf(form, dv) : ~Holds(w, cond)
     IN /\ rest' = rest \ {dv}
        /\ out' = IF dead THEN out \ {dv} ELSE out
  /\ UNCHANGED <<form, w, pc, n, acc, mask>>

FirstRare == Len(NeonTailCommon) + 1

Fails(row) == \E k \in DOMAIN row[2] : ~Holds(w, Condition(row[2][k]))

(* neon::tail: a block, behind the guard of its DV.                        *)
NeonBlock ==
  /\ pc = "tail" /\ form = "neon" /\ n <= Len(NeonTail)
  /\ n = FirstRare => mask \cap NeonRare # {}
  /\ LET row == NeonTail[n]
     IN out' = IF row[1] \in mask /\ Fails(row) THEN out \ {row[1]} ELSE out
  /\ n' = n + 1
  /\ UNCHANGED <<form, w, pc, acc, mask, rest>>

(* "mask & (...) != 0" is false: the blocks of the rare DVs are skipped.   *)
NeonSkipRare ==
  /\ pc = "tail" /\ form = "neon" /\ n = FirstRare
  /\ mask \cap NeonRare = {}
  /\ n' = Len(NeonTail) + 1
  /\ UNCHANGED <<form, w, pc, acc, mask, rest, out>>

TailEnd ==
  /\ pc = "tail"
  /\ IF form = "neon" THEN n > Len(NeonTail) ELSE rest = {}
  /\ pc' = "returned"
  /\ UNCHANGED <<form, w, n, acc, mask, rest, out>>

Next ==
  \/ ScalarStatement \/ VectorGroup \/ PrefixEnd
  \/ TableTail \/ NeonBlock \/ NeonSkipRare \/ TailEnd

Spec == Init /\ [][Next]_vars

-----------------------------------------------------------------------------
(* What the form that runs tests for a DV, and where.                      *)
PrefixTests(f, dv) ==
  IF f = "scalar"
  THEN {Condition(ScalarPrefix[k]) : k \in {k \in DOMAIN ScalarPrefix : dv \in ScalarPrefix[k][6]}}
  ELSE UNION {{LaneCondition(f, Prefix[f][k], lane)
                 : lane \in {lane \in 0 .. Width[f] - 1 : dv \in Prefix[f][k].dvs[Listed(f, lane)]}}
              : k \in DOMAIN Prefix[f]}

TailTests(f, dv) ==
  IF f = "neon"
  THEN UNION {{Condition(NeonTail[k][2][i]) : i \in DOMAIN NeonTail[k][2]}
              : k \in {k \in DOMAIN NeonTail : NeonTail[k][1] = dv}}
  ELSE TailOf(f, dv)

Tests(f, dv) == PrefixTests(f, dv) \cup TailTests(f, dv)

(* The shape of the tables: a DV is tested for finitely many conditions,   *)
(* and the blocks behind the guard of NeonRare are for its DVs.            *)
ASSUME UbcTablesAssumption ==
  /\ \A f \in DOMAIN Prefix : Len(Prefix[f]) \in Nat /\ DOMAIN Prefix[f] = 1 .. Len(Prefix[f])
  /\ FirstRare \in 1 .. Len(NeonTail) /\ DOMAIN NeonTail = 1 .. Len(NeonTail)
  /\ \A k \in FirstRare .. Len(NeonTail) : NeonTail[k][1] \in NeonRare
  /\ \A f \in DOMAIN Prefix : \A dv \in DVs : \A conds \in {Tests(f, dv), RulesFor[dv]} :
       IsFiniteSet(conds) /\ conds \subseteq Nat \X Nat \X {0, 1}

RulesSpan == SpanOf(RulesFor)
PublishedSpan == SpanOf(Published)
FormsSpan == [f \in DOMAIN Prefix |-> SpanOf([dv \in DVs |-> Tests(f, dv)])]

(* A form tests, for each DV, a basis of the space the rules of the C      *)
(* original span, and so do the published tables: no block at all is       *)
(* judged otherwise by them ("Any basis with the same span gives the same  *)
(* mask").  The five tables share no row order, no basis and no split.     *)
SpansTheRules == FormsSpan[form] = RulesSpan /\ PublishedSpan = RulesSpan

(* The mask a form returns is the C original's: a DV survives exactly      *)
(* where all its rules hold, whatever was skipped on the way.              *)
KeepsExactly == pc = "returned" => out = upstream_mask(w)

(* The candidates a tail is done with.                                     *)
Settled ==
  IF form = "neon"
  THEN mask \ {NeonTail[k][1] : k \in n .. Len(NeonTail)}
  ELSE mask \ rest

(* On the way there no candidate is lost that the rules keep, and one the  *)
(* tail is done with is only there if they do: a test for one DV never     *)
(* decides for another, and none is left to a test that comes too early.   *)
SettlesInOrder ==
  /\ upstream_mask(w) \subseteq mask
  /\ pc = "prefix" /\ form # "scalar" =>
       \A i \in 1..2 : \A lane \in DOMAIN acc[i] : acc[i][lane] \cap upstream_mask(w) = {}
  /\ pc = "tail" => /\ upstream_mask(w) \subseteq out
                    /\ Settled \cap out \subseteq upstream_mask(w)

(* The difference of a DV has both bits that a rule of the DV compares.    *)
DifferencesCoverRules ==
  \A dv \in DVs : \A cond \in RulesFor[dv] :
    Bit(SHA1_DVS[dv], cond[1]) /\ Bit(SHA1_DVS[dv], cond[2])

(* The block an attack along a DV pairs with this one differs from it by   *)
(* the dm the recompression goes on to try, and differs in every bit the   *)
(* conditions of that DV read.  So the filter says the same of both, and   *)
(* an attack is noticed from either of its files: the conditions and the   *)
(* difference table, which come from different places, agree on each bit.  *)
PartnerMeetsTheSame ==
  pc = "returned" =>
    /\ DifferencesCoverRules
    /\ \A dv \in DVs :
         dv \in out <=> \A cond \in RulesFor[dv] :
           (BitXor(w, cond[1], cond[2]) + BitXor(SHA1_DVS[dv], cond[1], cond[2])) % 2 = cond[3]

(* What survives is recompressed from a stored state on which the two      *)
(* blocks of the attack agree: between there and the last disturbance      *)
(* before it the local collisions have closed.  attacked starts both from  *)
(* the one state, and from the other it would find nothing.                *)
RecompressesFromAgreement == pc = "returned" => \A dv \in out : StartsTogether[dv]
=============================================================================
