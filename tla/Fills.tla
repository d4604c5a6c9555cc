-------------------------------- MODULE Fills --------------------------------
(***************************************************************************)
(* Where the conditions of a vector prefix can go (codegen/src/solve.rs):  *)
(* a group tests one condition per lane, at consecutive words, with one    *)
(* load for the near words and one for the far ones.  And which unit best  *)
(* picks to add to a prefix (score, fill): every slot is filled lane by    *)
(* lane, the most promising first, and given up as soon as a bound says    *)
(* that it cannot win.  The part of the score that last blocks of messages *)
(* make is left out; what is left is computed exactly, scaled to whole     *)
(* numbers.                                                                *)
(***************************************************************************)
EXTENDS Spans, Integers, Sequences, FiniteSets, SequencesExt, FiniteSetsExt

CONSTANTS
  SCHEDULE,   (* words of the expanded schedule                             *)
  WINDOWS,    (* how many windows one unit may span                         *)
  Params      (* what plans are searched for: [width, groups, lane_bit]     *)

ASSUME SlotsAssumption ==
  /\ {SCHEDULE, WINDOWS} \subseteq Nat \ {0}
  /\ \A p \in Params : p.width \in Nat \ {0} /\ p.groups \in Nat /\ p.lane_bit \in BOOLEAN

I(c) == c.u[1]
A(c) == c.u[2]
J(c) == c.v[1]
B(c) == c.v[2]
Gap(c) == J(c) - I(c)

(* The order of tuples of numbers of one length.                           *)
Less(s, t) == \E n \in DOMAIN s : s[n] < t[n] /\ \A m \in 1 .. n - 1 : s[m] = t[m]

(* A set in an order: each element where so many are lower.                *)
Ordered(set, Lower(_, _)) ==
  [n \in 1 .. Cardinality(set) |->
    CHOOSE x \in set : Cardinality({ y \in set : Lower(y, x) }) = n - 1]

Place(c) == <<I(c), A(c), J(c), B(c), c.c>>
FirstOf(conds) == CHOOSE c \in conds : \A e \in conds : ~Less(Place(e), Place(c))

(* key: what the lanes of one group share.                                 *)
Key(p, c) ==
  IF p.lane_bit THEN <<Gap(c), B(c) - A(c), 0, c.c>> ELSE <<Gap(c), A(c), B(c), c.c>>

Base_AtMember(first, width, offset) == first

(* windows: the groups a walk over the members at these words makes.  Each *)
(* begins at its first member, or earlier where its far load would pass    *)
(* the schedule's end.                                                     *)
Base(first, width, offset) == Min({first, SCHEDULE - width - offset})

WindowsOf(is, width, offset) ==
  LET Walk(done, i) ==
        IF done # << >> /\ i < Last(done).base + width
        THEN Front(done) \o <<[Last(done) EXCEPT !.n = @ + 1]>>
        ELSE Append(done, [base |-> Base(i, width, offset), n |-> 1])
  IN FoldLeft(Walk, << >>, is)

(* cost: how many groups the emitter makes of a unit.                      *)
Cost(unit, width) ==
  Len(WindowsOf([n \in DOMAIN unit |-> I(unit[n])], width, Gap(unit[1])))

Spent(units, width) == FoldLeft(LAMBDA sum, unit : sum + Cost(unit, width), 0, units)

(* slots: windows of lanes under one key, the first and the last in use.   *)
Lane(p, cands, slot, l) == { c \in cands : Key(p, c) = slot.key /\ I(c) = slot.base + l }

UsesWindow(p, cands, slot, n) ==
  \E l \in n * p.width .. (n + 1) * p.width - 1 : Lane(p, cands, slot, l) # {}

SlotsOf(p, cands) ==
  LET Members(key) == { c \in cands : Key(p, c) = key }
      Low(key, n) == Max({0, Min({ I(c) : c \in Members(key) }) - (n * p.width - 1)})
      High(key) == Max({ I(c) : c \in Members(key) })
      At(key, n) == { [key |-> key, windows |-> n, base |-> base] : base \in Low(key, n) .. High(key) }
      Widths == IF p.width > 1 THEN 1 .. WINDOWS ELSE {1}
      All == UNION { At(key, n) : key \in { Key(p, c) : c \in cands }, n \in Widths }
  IN { slot \in All : UsesWindow(p, cands, slot, 0) /\ UsesWindow(p, cands, slot, slot.windows - 1) }

(* Slots are in this order.                                                *)
SlotPlace(slot) ==
  <<slot.key[1], slot.key[2], slot.key[3], slot.key[4], slot.windows, slot.base>>
-----------------------------------------------------------------------------
(* Filling them.                                                           *)
CONSTANTS
  RANKS,   (* the rank from which a survivor counts as the smallest unit    *)
  Ubcs     (* the published conditions, in the order of their table         *)

ASSUME UbcsAssumption ==
  /\ RANKS \in Nat
  /\ Ubcs \in Seq(Published) /\ Ubcs # << >>
  /\ Published = { Ubcs[n] : n \in DOMAIN Ubcs }
  /\ \A m, n \in DOMAIN Ubcs : Ubcs[m] = Ubcs[n] => m = n

ASSUME FiniteAssumption == IsFiniteSet(Vertex) /\ IsFiniteSet(Dv) /\ Dv # {}

(* The slots by their places in order, with the options of each lane.      *)
SlotLanes(p, cands) ==
  { [place |-> SlotPlace(slot),
     lanes |-> [k \in 1 .. slot.windows * p.width |-> Lane(p, cands, slot, k - 1)]] :
      slot \in SlotsOf(p, cands) }

(* required: the published conditions, counted once per DV.                *)
Required == FoldLeft(LAMBDA sum, u : sum + Cardinality(u.dvs), 0, Ubcs)

Total(ranks) == MapThenSumSet(LAMBDA d : ranks[d], Dv)
-----------------------------------------------------------------------------
Alive(rank) == 2 ^ (RANKS - Min({rank, RANKS}))

(* survivors: the expected number of DVs left, in units of 2^-RANKS.       *)
Survivors(ranks) == MapThenSumSet(LAMBDA d : Alive(ranks[d]), Dv)

(* random: how often the tail runs, and with how many DVs, on random data; *)
(* in units of 2^-(RANKS * DVs).                                           *)
Random(ranks) ==
  LET n == Cardinality(Dv)
  IN 2 ^ (RANKS * n) - FoldSet(LAMBDA d, product : product * (2 ^ RANKS - Alive(ranks[d])), 1, Dv)
       + Survivors(ranks) * 2 ^ (RANKS * (n - 1))

Score(p, ranks) == IF p.width > 1 THEN Random(ranks) ELSE Survivors(ranks)

PlusGained(ranks, dvs) == [d \in Dv |-> IF d \in dvs THEN ranks[d] + 1 ELSE ranks[d]]

(* How best ranks a fill, lower is better; scaled so that a unit of one or *)
(* of two windows gives a whole number.                                    *)
Rank(per_group, before, score, groups) ==
  IF per_group THEN 0 - (before - score) * (2 \div groups) ELSE score

(* What a fill needs of the forests: <<d, bits>> for each tree of DV d.    *)
TreesOf(live) == { <<d, { y \in Vertex : Connected(live[d], x, y) }>> : d \in Dv, x \in Vertex }

(* The DVs that a condition would add to.                                  *)
Adds(trees, c) == { d \in c.dvs : ~\E t \in trees : t[1] = d /\ c.u \in t[2] /\ c.v \in t[2] }

Joined(trees, c) ==
  LET Apart(t) == t[1] \notin Adds(trees, c) \/ {c.u, c.v} \cap t[2] = {}
  IN { t \in trees : Apart(t) }
       \cup { <<d, UNION { t[2] : t \in { t \in trees : t[1] = d /\ ~Apart(t) } }>> : d \in Adds(trees, c) }

(* hits: the DVs some option of a lane would add to.                       *)
Hits(trees, options) == UNION { Adds(trees, c) : c \in options }

Low_NextLaneOn(p, ranks, trees, lanes, k) ==
  Score(p, [d \in Dv |->
    ranks[d] + Cardinality({ l \in k + 1 .. Len(lanes) : d \in Hits(trees, lanes[l]) })])

(* low: a score no fill goes below if the lanes from k on add all they hit *)
(* before anything is filled (reach, total).                               *)
Low(p, ranks, trees, lanes, k) ==
  Score(p, [d \in Dv |->
    ranks[d] + Cardinality({ l \in k .. Len(lanes) : d \in Hits(trees, lanes[l]) })])

CONSTANT Infinity   (* f64::INFINITY: no score gets there                    *)

ASSUME InfinityAssumption ==
  Infinity \in Nat \ {0} /\ \A p \in Params, ranks \in [Dv -> 0 .. RANKS] : Score(p, ranks) < Infinity

None == [group |-> << >>]

(* The option that lowers the score of a fill most, the first among equals. *)
PickLane(p, fill, options) ==
  LET ScoreWith(c) == Score(p, PlusGained(fill.ranks, Adds(fill.trees, c)))
      better == { c \in options : ScoreWith(c) < fill.score }
      lowest == Min({ ScoreWith(c) : c \in better })
      pick == FirstOf({ c \in better : ScoreWith(c) = lowest })
  IN IF better = {} THEN fill
     ELSE [group |-> Append(fill.group, pick), trees |-> Joined(fill.trees, pick),
           ranks |-> PlusGained(fill.ranks, Adds(fill.trees, pick)), score |-> lowest]

(* fill: gives up before a lane once the fill cannot rank below cut.       *)
GivesUp(p, start, per_group, cut, lanes, fill, k) ==
  LET low == Low(p, fill.ranks, start.trees, lanes, k)
      before == start.score
      spent == IF fill.group = << >> THEN 1 ELSE Cost(fill.group, p.width)
  IN /\ k > 1 /\ cut < Infinity
     /\ low >= before \/ Rank(per_group, before, low, spent) > cut

Fill(p, start, per_group, cut, lanes) ==
  LET OneLane(fill, k) ==
        IF fill = None \/ GivesUp(p, start, per_group, cut, lanes, fill, k) THEN None
        ELSE PickLane(p, fill, lanes[k])
      filled == FoldLeft(OneLane, start, [k \in 1 .. Len(lanes) |-> k])
  IN IF filled.group = << >> THEN None ELSE filled

(* What every fill of one best starts from.                                *)
StartAt(p, state) ==
  [group |-> << >>, trees |-> TreesOf(state.live), ranks |-> state.ranks,
   score |-> Score(p, state.ranks)]
-----------------------------------------------------------------------------
Fitting(p, slots, free) == { slot \in slots : Len(slot.lanes) \div p.width <= free }

(* A slot's fill against the best so far: [rank, place, fill].             *)
Against(p, start, free, per_group, best, slot, filled) ==
  IF filled = None \/ Cost(filled.group, p.width) > free THEN best
  ELSE LET rank == Rank(per_group, start.score, filled.score, Cost(filled.group, p.width))
       IN IF rank < best.rank \/ (rank = best.rank /\ Less(slot.place, best.place))
          THEN [rank |-> rank, place |-> slot.place, fill |-> filled] ELSE best

NoBest == [rank |-> Infinity, place |-> << >>, fill |-> None]

(* A slot with what its fill could rank at, and its turn.                  *)
Bounded(p, start, per_group, slot) ==
  LET low == Low(p, start.ranks, start.trees, slot.lanes, 1)
      bound == IF per_group THEN 2 * (low - start.score) ELSE low
      at == slot.place
  IN [slot |-> slot, bound |-> bound,
      turn |-> <<bound, at[1], at[2], at[3], at[4], at[5], at[6]>>]

LastInTurn(order) == CHOOSE b \in order : \A e \in order : ~Less(b.turn, e.turn)

(* best: by the drop in score per group, or by the score reached.          *)
Best(p, slots, state, free, per_group) ==
  LET start == StartAt(p, state)
      OneSlot(b, best) ==
        IF b.bound > best.rank THEN best
        ELSE Against(p, start, free, per_group, best, b.slot,
                     Fill(p, start, per_group, best.rank, b.slot.lanes))
      order == { Bounded(p, start, per_group, slot) : slot \in Fitting(p, slots, free) }
  IN MapThenFoldSet(OneSlot, NoBest, LAMBDA b : b, LastInTurn, order).fill

(* What best looks for: every slot filled to its end.                      *)
BestOfAll(p, slots, state, free, per_group) ==
  LET start == StartAt(p, state)
      OneSlot(slot, best) ==
        Against(p, start, free, per_group, best, slot,
                Fill(p, start, per_group, Infinity, slot.lanes))
  IN FoldSet(OneSlot, NoBest, Fitting(p, slots, free)).fill
=============================================================================
