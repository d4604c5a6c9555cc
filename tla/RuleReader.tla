------------------------------ MODULE RuleReader ------------------------------
(***************************************************************************)
(* How the rules of the C original are read off it by running it           *)
(* (codegen/src/upstream.rs, emit): schedules are drawn until each DV was  *)
(* kept often enough, its bits are those whose flip rules it out on the    *)
(* first of them, and bits that agree on all of them, or disagree on all,  *)
(* are tied.  Before the rules are written they are held against the C,    *)
(* near those schedules and on some at random.                             *)
(*                                                                         *)
(* The C check is outside: for each DV some sets of bits and what each     *)
(* must add up to.  A schedule is the set of its one bits.                 *)
(***************************************************************************)
EXTENDS Integers, FiniteSets, SequencesExt

CONSTANTS
  Bits,        (* the bits of a schedule                                    *)
  DVS,         (* how many DVs there are                                    *)
  Upstreams,   (* the C checks to read: [Dv -> a set of <<bits, sum>>]      *)
  Messages,    (* the expanded schedules of random messages                 *)
  SAMPLES,
  RANDOM       (* how many of those are tried                               *)

Dv == 0 .. DVS - 1
Schedules == SUBSET Bits

ASSUME RuleReaderAssumption ==
  /\ Bits \subseteq Nat /\ DVS \in Nat \ {0}
  /\ Messages \subseteq Schedules
  /\ SAMPLES \in Nat \ {0} /\ RANDOM \in Nat
  /\ \A upstream \in Upstreams, d \in Dv : upstream[d] \subseteq Schedules \X {0, 1}

VARIABLES
  upstream,   (* the C check                                                *)
  reader,     (* "draw", "read", "near", "random", "written" or "failed"    *)
  dv,         (* the DV next to be read, or to be tried near                *)
  kept,       (* each DV's samples                                          *)
  groups,     (* each DV's groups of tied bits                              *)
  rules,      (* [dv, u, v, c]                                              *)
  tries       (* how many random schedules were tried                       *)

readerVars == <<upstream, reader, dv, kept, groups, rules, tries>>

(* ubc_check of the C.                                                     *)
Adds(w, bits) == Cardinality(w \cap bits) % 2
ubc_check(w) == { d \in Dv : \A form \in upstream[d] : Adds(w, form[1]) = form[2] }

(* bit(w, u) ^ bit(w, v)                                                   *)
Xor(w, u, v) == IF u \in w <=> v \in w THEN 0 ELSE 1

Flip(w, bits) == (w \ bits) \cup (bits \ w)

rules_mask(w) == { d \in Dv : \A r \in rules : r.dv = d => Xor(w, r.u, r.v) = r.c }

(* Proper parts of a group, one of each pair of complements.               *)
Parts(group) == { part \in SUBSET group : Min(group) \in part /\ part # group }

ReaderInit ==
  /\ upstream \in Upstreams
  /\ reader = "draw" /\ dv = 0
  /\ kept = [d \in Dv |-> << >>]
  /\ groups = [d \in Dv |-> {}]
  /\ rules = {} /\ tries = 0

(* One schedule at random.                                                 *)
Draw(w) ==
  /\ reader = "draw" /\ \E d \in Dv : Len(kept[d]) < SAMPLES
  /\ kept' = [d \in Dv |-> IF d \in ubc_check(w) /\ Len(kept[d]) < SAMPLES
                           THEN Append(kept[d], w) ELSE kept[d]]
  /\ UNCHANGED <<upstream, reader, dv, groups, rules, tries>>

DrawEnds ==
  /\ reader = "draw" /\ \A d \in Dv : Len(kept[d]) = SAMPLES
  /\ reader' = "read"
  /\ UNCHANGED <<upstream, dv, kept, groups, rules, tries>>

(* The bits the C reads for a DV.                                          *)
ReadBits(d) == { k \in Bits : d \notin ubc_check(Flip(kept[d][1], {k})) }

(* Two bits agree on every sample, or disagree on every one.               *)
Together(d, u, v) == \A s \in Range(kept[d]) : Xor(s, u, v) = Xor(kept[d][1], u, v)

GroupsOf(d) == { { v \in ReadBits(d) : Together(d, u, v) } : u \in ReadBits(d) }

(* A group's bits are tied to its first.                                   *)
TiesOf(d) ==
  LET Tie(g, v) == [dv |-> d, u |-> Min(g), v |-> v, c |-> Xor(kept[d][1], Min(g), v)]
  IN UNION { { Tie(g, v) : v \in g \ {Min(g)} } : g \in GroupsOf(d) }

Read ==
  /\ reader = "read"
  /\ groups' = [groups EXCEPT ![dv] = GroupsOf(dv)]
  /\ rules' = rules \cup TiesOf(dv)
  /\ IF dv + 1 = DVS THEN reader' = "near" /\ dv' = 0 ELSE reader' = reader /\ dv' = dv + 1
  /\ UNCHANGED <<upstream, kept, tries>>

Tried_NoParts(d) ==
  { Flip(kept[d][1], bits) : bits \in {{}} \cup { {k} : k \in Bits } \cup groups[d] }

(* The schedules tried near a DV's first sample.                           *)
Tried(d) ==
  { Flip(kept[d][1], bits) :
      bits \in {{}} \cup { {k} : k \in Bits } \cup groups[d] \cup UNION { Parts(g) : g \in groups[d] } }

(* The first assertion, for one DV.                                        *)
Near ==
  /\ reader = "near"
  /\ IF \A w \in Tried(dv) : rules_mask(w) = ubc_check(w)
     THEN /\ dv' = dv + 1
          /\ reader' = IF dv' = DVS THEN "random" ELSE reader
     ELSE reader' = "failed" /\ dv' = dv
  /\ UNCHANGED <<upstream, kept, groups, rules, tries>>

(* The second assertion, on one schedule.                                  *)
Random(w) ==
  /\ reader = "random" /\ tries < RANDOM
  /\ tries' = tries + 1
  /\ reader' = IF rules_mask(w) = ubc_check(w) THEN reader ELSE "failed"
  /\ UNCHANGED <<upstream, dv, kept, groups, rules>>

Write ==
  /\ reader = "random" /\ tries = RANDOM
  /\ reader' = "written"
  /\ UNCHANGED <<upstream, dv, kept, groups, rules, tries>>

Done == reader \in {"written", "failed"} /\ UNCHANGED readerVars

ReaderNext ==
  \/ \E w \in Schedules : Draw(w)
  \/ DrawEnds \/ Read \/ Near
  \/ \E w \in Messages : Random(w)
  \/ Write \/ Done

ReaderSpec == ReaderInit /\ [][ReaderNext]_readerVars
-----------------------------------------------------------------------------
(* The C ties bits in pairs and does nothing else for this DV.             *)
OnlyTies(d) == \A form \in upstream[d] : \E u \in Bits, v \in Bits : u # v /\ form[1] = {u, v}

(* Two of a DV's bits that the C leaves free of each other go together on  *)
(* all of its samples: the chance of one in 2^63.                          *)
ByChance(d) ==
  \E u \in ReadBits(d), v \in ReadBits(d) :
    /\ u # v /\ Together(d, u, v)
    /\ \E w, x \in Schedules :
         d \in ubc_check(w) /\ d \in ubc_check(x) /\ Xor(w, u, v) # Xor(x, u, v)

(* Rules that are written say of every schedule what the C says, though it *)
(* was only run on some: bits tied by chance do not get past the flips of  *)
(* bits, groups and parts of groups ("the checks below would catch that    *)
(* too"), and neither does a C that also fixes a bit or adds up three.     *)
(* Nothing else makes the reader fail.                                     *)
ReadsUpstream ==
  /\ reader = "written" => \A w \in Schedules : rules_mask(w) = ubc_check(w)
  /\ reader = "failed" => \E d \in Dv : ~OnlyTies(d) \/ ByChance(d)
=============================================================================
