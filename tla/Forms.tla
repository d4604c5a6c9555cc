-------------------------------- MODULE Forms --------------------------------
(***************************************************************************)
(* From a plan to a form of the filter (codegen/src/emit.rs, tail.rs and   *)
(* the emitters of each target): what the emitted source checks, group by  *)
(* group and DV by DV.  A schedule here has all its bits: a form could     *)
(* read any of them.  Lanes are in the order of their steps; that loads    *)
(* and constants agree on it is UbcCheck's subject.                        *)
(***************************************************************************)
EXTENDS Fills

(* The DVs are the numbers of the mask's bits.                             *)
ASSUME DvAssumption == Dv \subseteq Nat

(* Family::of: the first member names the shift.                           *)
FamilyOf(unit) ==
  [offset |-> Gap(unit[1]), near_bit |-> A(unit[1]), far_bit |-> B(unit[1]),
   clears_on |-> 1 - unit[1].c,
   members |-> [n \in DOMAIN unit |-> [i |-> I(unit[n]), a |-> A(unit[n]), dvs |-> unit[n].dvs]]]

PlanOf(us, tail_conds, ranks) ==
  [families |-> [n \in DOMAIN us |-> FamilyOf(us[n])], tail |-> tail_conds, prefix_ranks |-> ranks]

Align(f) == f.far_bit - f.near_bit

(* test_bit: where a member with near bit a is tested, its words lined up. *)
TestBit(shift, a) == a + Min({shift, 0})

(* One bit of the two words lined up: x of the emitted group.              *)
LinedUp(w, i, offset, shift, bit) ==
  IF shift >= 0 THEN Xor(w[<<i, bit>>], w[<<i + offset, bit + shift>>])
                ELSE Xor(w[<<i, bit - shift>>], w[<<i + offset, bit>>])
-----------------------------------------------------------------------------
(* lane_groups: a group is a window with each lane's DVs and tested bits,  *)
(* none of either where the lane has no member.                            *)
LaneGroups(f, width) ==
  LET is == [n \in DOMAIN f.members |-> f.members[n].i]
      windows == WindowsOf(is, width, f.offset)
      Taken(n) == FoldLeft(LAMBDA sum, window : sum + window.n, 0, SubSeq(windows, 1, n - 1))
      Window(n) == SubSeq(f.members, Taken(n) + 1, Taken(n) + windows[n].n)
      MembersAt(n, i) == { m \in Range(Window(n)) : m.i = i }
      LaneAt(n, i) ==
        [dvs |-> UNION { m.dvs : m \in MembersAt(n, i) },
         bits |-> { TestBit(Align(f), m.a) : m \in MembersAt(n, i) }]
  IN [n \in DOMAIN windows |->
       [family |-> f, base |-> windows[n].base,
        lanes |-> [k \in 0 .. width - 1 |-> LaneAt(n, windows[n].base + k)]]]

(* test_const: one bit for all lanes where all that check test the same.   *)
TestedBits(g, k) ==
  LET bits == UNION { g.lanes[l].bits : l \in DOMAIN g.lanes }
  IN IF Cardinality(bits) = 1 THEN bits ELSE g.lanes[k].bits

HighestWord(g) == g.base + g.family.offset + Cardinality(DOMAIN g.lanes) - 1

(* all_groups: in the order in which the words they read are there.        *)
AllGroups(plan, width) ==
  LET groups == FlattenSeq([n \in DOMAIN plan.families |-> LaneGroups(plan.families[n], width)])
      order == Ordered(DOMAIN groups,
                 LAMBDA m, n : Less(<<HighestWord(groups[m]), m>>, <<HighestWord(groups[n]), n>>))
  IN [n \in DOMAIN groups |-> groups[order[n]]]

(* highest_read, and its assertion.                                        *)
HighestRead(groups) == Max({0} \cup { HighestWord(groups[n]) : n \in DOMAIN groups })

(* by_dv: checks wanting a 1 first; a stable sort, so that ties stay in    *)
(* the order in which the tail was picked.                                 *)
ByDv(plan, d) ==
  LET Order(n) == <<1 - plan.tail[n].c, I(plan.tail[n]), A(plan.tail[n]), n>>
      order == Ordered({ n \in DOMAIN plan.tail : d \in plan.tail[n].dvs },
                 LAMBDA m, n : Less(Order(m), Order(n)))
  IN [k \in DOMAIN order |-> plan.tail[order[k]]]

InDvOrder == Ordered(Dv, <)

TailSpan_FromOne(by_dv, d) ==
  [start |-> 1 + FoldLeft(LAMBDA sum, e : IF e < d THEN sum + Len(by_dv[e]) ELSE sum, 0, InDvOrder),
   len |-> Len(by_dv[d])]

(* Where a DV's checks begin in TAIL_CHECKS, and how many there are.       *)
TailSpan(by_dv, d) ==
  [start |-> FoldLeft(LAMBDA sum, e : IF e < d THEN sum + Len(by_dv[e]) ELSE sum, 0, InDvOrder),
   len |-> Len(by_dv[d])]

Guarding(by_dv) == { d \in Dv : by_dv[d] # << >> }

(* guarded: the DVs two or more ranks above the lowest share one guard.    *)
RareMask(by_dv, ranks) ==
  LET rare == 2 + Min({ ranks[d] : d \in Guarding(by_dv) })
  IN { d \in Guarding(by_dv) : ranks[d] >= rare }

TailOf(by_dv, ranks) ==
  [checks |-> FlattenSeq([n \in DOMAIN InDvOrder |-> by_dv[InDvOrder[n]]]),
   spans |-> [d \in Dv |-> TailSpan(by_dv, d)],
   blocks |-> by_dv,
   rare |-> RareMask(by_dv, ranks)]

(* What is emitted for a plan: the groups of a vector target, the families *)
(* of the scalar one, and the tail in both shapes.                         *)
FormOf(plan, width) ==
  [families |-> plan.families,
   groups |-> IF width = 1 THEN << >> ELSE AllGroups(plan, width),
   tail |-> TailOf([d \in Dv |-> ByDv(plan, d)], plan.prefix_ranks)]
-----------------------------------------------------------------------------
(* What the emitted form does.  A lane clears its DVs where the tested bit *)
(* has the value that clears.                                              *)
LaneClears(g, w, k) ==
  LET f == g.family
      set == \E bit \in TestedBits(g, k) : LinedUp(w, g.base + k, f.offset, Align(f), bit) = 1
  IN IF set <=> f.clears_on = 1 THEN g.lanes[k].dvs ELSE {}

(* sse2, avx2, neon: the prefix, with its two accumulators.                *)
VectorPrefix(groups, w) ==
  LET Clears(n) == UNION { LaneClears(groups[n], w, k) : k \in DOMAIN groups[n].lanes }
      Acc(parity) == UNION { Clears(n) : n \in { m \in DOMAIN groups : (m - 1) % 2 = parity } }
  IN Dv \ (Acc(0) \cup Acc(1))

(* scalar: a statement per member.                                         *)
ScalarPrefix(families, w) ==
  LET Statement(mask, f, m) ==
        IF LinedUp(w, m.i, f.offset, Align(f), TestBit(Align(f), m.a)) = f.clears_on
        THEN mask \ m.dvs ELSE mask
      OneFamily(mask, f) == FoldLeft(LAMBDA left, m : Statement(left, f, m), mask, f.members)
  IN FoldLeft(OneFamily, Dv, families)

Prefix(form, width, w) ==
  IF width = 1 THEN ScalarPrefix(form.families, w) ELSE VectorPrefix(form.groups, w)

(* tail::emit with Shape::Table: the checks of each DV still alive.        *)
TableTail(tail, w, mask) ==
  LET Dead(d) == LET span == tail.spans[d]
                 IN \E n \in span.start + 1 .. span.start + span.len : ~Holds(w, tail.checks[n])
  IN { d \in mask : ~Dead(d) }

(* With Shape::Guarded: the block of each DV, the rare ones' behind one    *)
(* more guard.                                                             *)
GuardedTail(tail, w, mask) ==
  LET Runs(d) == d \in tail.rare => mask \cap tail.rare # {}
      Fails(d) == d \in mask /\ \E n \in DOMAIN tail.blocks[d] : ~Holds(w, tail.blocks[d][n])
  IN { d \in mask : ~(Runs(d) /\ Fails(d)) }

(* The whole check: prefix, the way out, and the tail, which is empty when *)
(* the prefix checks everything.                                           *)
FormMask(form, width, shape, w) ==
  LET mask == Prefix(form, width, w)
  IN IF mask = {} \/ form.tail.checks = << >> THEN mask
     ELSE IF shape = "table" THEN TableTail(form.tail, w, mask) ELSE GuardedTail(form.tail, w, mask)
=============================================================================
