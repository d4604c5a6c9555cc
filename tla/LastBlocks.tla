----------------------------- MODULE LastBlocks -----------------------------
(***************************************************************************)
(* How a vector prefix fares on the last block of a message                *)
(* (codegen/src/padding.rs, as the search in solve.rs uses it).  Padding   *)
(* fixes most of that block, so a condition may fail there always or       *)
(* never.  For each DV and each length modulo the block, the chance that   *)
(* the DV survives is worked out from sums of its published conditions:    *)
(* those that the free bits do not reach are fixed.  The chances, and      *)
(* totals of them over the DVs, move on with each condition taken.         *)
(*                                                                         *)
(* A linear form, or a sum of conditions, is the set of what it adds up.   *)
(* A bit of the block is its number, from bit 0 of word 0.  A chance 2^-n  *)
(* is n.                                                                   *)
(***************************************************************************)
EXTENDS Spans, Integers, SequencesExt

CONSTANTS
  Ubcs,          (* the published conditions, in their order                *)
  WORDS,         (* words of a block                                        *)
  LENGTH_WORDS,  (* of them, those of the length                            *)
  WORD_BYTES, BYTE,
  Taps,          (* how far back the schedule's recurrence reads            *)
  STEPS,         (* words of the schedule                                   *)
  LENGTH_LOW,    (* the length's first bit of a byte count                  *)
  LENGTH_HIGH,   (* the first above those of the residue                    *)
  LENGTH_BITS,   (* the first that is taken to be zero                      *)
  LANES,         (* bound: conditions of one fill                           *)
  TAKEN          (* bound: conditions taken                                 *)

WORD == WORD_BYTES * BYTE
RESIDUES == WORDS * WORD_BYTES
Residue == 0 .. RESIDUES - 1

ASSUME ResidueAssumption ==
  /\ 2 ^ LENGTH_LOW = BYTE
  /\ 2 ^ (LENGTH_HIGH - LENGTH_LOW) = RESIDUES
  /\ LENGTH_HIGH < LENGTH_BITS /\ LENGTH_BITS <= WORD

ASSUME TapsAssumption == Taps \subseteq 1 .. WORDS

ASSUME UbcsAssumption == Ubcs \in Seq(Published) /\ Range(Ubcs) = Published

ASSUME FiniteDvAssumption == Dv \subseteq Nat /\ IsFiniteSet(Dv)

ASSUME SizeAssumption == {WORDS, WORD_BYTES, TAKEN} \subseteq Nat

ASSUME PowersAssumption == \A n \in 0 .. TAKEN : 2 ^ n \in Nat
-----------------------------------------------------------------------------
Plus(f, g) == (f \ g) \cup (g \ f)

(* The sum of a family of forms.                                           *)
SumOf(fs) == { x \in UNION Range(fs) : Cardinality({ k \in DOMAIN fs : x \in fs[k] }) % 2 = 1 }

Pivot(f) == Max(f)

(* forms: bit b of w[t], in w[t + 1][b].                                   *)
Forms ==
  LET Word(w, t) ==
        IF t < WORDS THEN [b \in 0 .. WORD - 1 |-> {t * WORD + b}]
        ELSE [b \in 0 .. WORD - 1 |->
                SumOf([k \in Taps |-> w[t + 1 - k][(b + WORD - 1) % WORD]])]
  IN FoldLeft(LAMBDA w, t : Append(w, Word(w, t)), << >>, [n \in 1 .. STEPS |-> n - 1])

(* Bytes are loaded big-endian.                                            *)
ByteBit(k, q) == (k \div WORD_BYTES) * WORD + BYTE * (WORD_BYTES - 1 - (k % WORD_BYTES)) + q

(* The length is in the last word.                                         *)
LengthBit(b) == (WORDS - 1) * WORD + b

(* shape: the free bits of a last block, and those that are always set.    *)
Shape(r) ==
  LET room == (WORDS - LENGTH_WORDS) * WORD_BYTES
      data == IF r < room THEN { ByteBit(k, q) : k \in 0 .. r - 1, q \in 0 .. BYTE - 1 } ELSE {}
      marker == IF r < room THEN {ByteBit(r, BYTE - 1)} ELSE {}
      residue == { b \in LENGTH_LOW .. LENGTH_HIGH - 1 : (r \div 2 ^ (b - LENGTH_LOW)) % 2 = 1 }
  IN [free |-> data \cup { LengthBit(b) : b \in LENGTH_HIGH .. LENGTH_BITS - 1 },
      value |-> marker \cup { LengthBit(b) : b \in residue }]
-----------------------------------------------------------------------------
(* Sub, by its rows.                                                       *)
Reduce(sub, v) == Plus(v, SumOf([row \in { s \in sub : Pivot(s) \in v } |-> row]))

Grows(sub, v) == Reduce(sub, v) # {}

Insert(sub, v) ==
  LET rest == Reduce(sub, v)
  IN IF rest = {} THEN sub
     ELSE { IF Pivot(rest) \in row THEN Plus(row, rest) ELSE row : row \in sub } \cup {rest}

InsertAll(sub, vs) == FoldSet(LAMBDA v, into : Insert(into, v), sub, vs)

Rank(sub) == Cardinality(sub)

(* A DV's published conditions, by their places in the table.              *)
PublishedOf(d) == [e \in { n \in DOMAIN Ubcs : d \in Ubcs[n].dvs } |-> Ubcs[e]]

FormOf(forms, c) == Plus(forms[c.u[1] + 1][c.u[2]], forms[c.v[1] + 1][c.v[2]])

Less(at, b) ==
  IF Pivot(b.row) \in at.row
  THEN [row |-> Plus(at.row, b.row), tag |-> Plus(at.tag, b.tag)] ELSE at

(* The free part of one condition is eliminated; what has none left is a   *)
(* fixed sum.  wrong: those the fixed bits alone make fail.                *)
Elimination(forms, shape, c, at, e) ==
  LET form == FormOf(forms, c)
      fixed_part == form \ shape.free
      left == FoldLeft(Less, [row |-> form \cap shape.free, tag |-> {e}], at.basis)
  IN [basis |-> IF left.row = {} THEN at.basis ELSE Append(at.basis, left),
      fixed |-> IF left.row = {} THEN Insert(at.fixed, left.tag) ELSE at.fixed,
      wrong |-> IF Cardinality(fixed_part \cap shape.value) % 2 # c.c
                THEN at.wrong \cup {e} ELSE at.wrong]

Eliminated(forms, shape, published) ==
  FoldLeftDomain(LAMBDA at, e : Elimination(forms, shape, published[e], at, e),
                 [basis |-> << >>, fixed |-> {}, wrong |-> {}], published)

Passing_RightOnly(fixed, wrong) ==
  InsertAll({}, { v \in fixed : Cardinality(v \cap wrong) % 2 = 0 })

(* The fixed sums that come out right: those rows that do, and pairs of    *)
(* those that do not.                                                      *)
Passing(fixed, wrong) ==
  LET odd == { v \in fixed : Cardinality(v \cap wrong) % 2 = 1 }
      least == Min({ Pivot(v) : v \in odd })
      pairs == { Plus(v, first) : v \in odd, first \in { f \in odd : Pivot(f) = least } }
  IN InsertAll(InsertAll({}, fixed \ odd), pairs \ {{}})

(* What a residue's padding leaves of a DV's conditions.                   *)
ClassFor(d, forms, r) ==
  LET at == Eliminated(forms, Shape(r), PublishedOf(d))
  IN [fixed |-> at.fixed, pass |-> Passing(at.fixed, at.wrong)]

(* Dv::new.  Residues that do the same have one class, and those that      *)
(* leave every sum to the free bits none.                                  *)
ClassesOf(d, forms) == [r \in Residue |-> ClassFor(d, forms, r)]

(* Dv::sum: the conditions on the path between the bits of c.  A DV's      *)
(* published conditions make no circle, so there is one path.              *)
DvSum(d, c) ==
  LET edges == PublishedOf(d)
      Joins(path) == SumOf([e \in path |-> {edges[e].u, edges[e].v}]) = {c.u, c.v}
  IN { e \in DOMAIN edges : \E path \in SUBSET DOMAIN edges : e \in path /\ Joins(path) }
-----------------------------------------------------------------------------
VARIABLES
  stage,   (* "forms", "new", "ready", "add", "report"                      *)
  linear,  (* forms(), by word and bit                                      *)
  cands,   (* the candidates                                                *)
  exact,   (* Exact: each DV's classes and sums, as far as they are built   *)
  prefix,  (* the conditions of the prefix                                  *)
  live,    (* State: the forests of each DV                                 *)
  ranks,   (* and their ranks                                               *)
  last,    (* Last: [seen, alive, totals]                                   *)
  fill     (* [conds, trial, ranks, last, totals, means], or NoFill         *)

lastVars == <<stage, linear, cands, exact, prefix, live, ranks, last, fill>>

(* A chance of zero.                                                       *)
Never == -1

(* In units of 2^-TAKEN: with TAKEN conditions there is no smaller chance.  *)
Units(n) == IF n \in 0 .. TAKEN THEN 2 ^ (TAKEN - n) ELSE 0

(* Totals, for one residue.  A product of 1 - 2^-n is how often it has     *)
(* each factor, and 1 - 0 is none.                                         *)
NoTotal == [none |-> [n \in 1 .. TAKEN |-> 0], certain |-> 0, sum |-> 0]

Entered(at, n, times) ==
  [none |-> IF n \in DOMAIN at.none THEN [at.none EXCEPT ![n] = @ + times] ELSE at.none,
   certain |-> IF n = 0 THEN at.certain + times ELSE at.certain,
   sum |-> at.sum + times * Units(n)]

(* Totals::step                                                            *)
Step(at, old, new) == Entered(Entered(at, old, -1), new, 1)

(* Totals::swap                                                            *)
Swap(totals, old, new) == [r \in Residue |-> Step(totals[r], old[r], new[r])]

(* Totals::of                                                              *)
TotalsOf(alive) ==
  [r \in Residue |-> FoldSet(LAMBDA d, at : Entered(at, alive[d][r], 1), NoTotal, Dv)]

(* mean, in units of 2^-TAKEN and times the residues.                      *)
Mean(alive) == FoldFunction(LAMBDA n, sum : Units(n) + sum, 0, alive)

Means(alive) == [d \in Dv |-> Mean(alive[d])]
-----------------------------------------------------------------------------
Certain == [r \in Residue |-> 0]

(* Exact::empty                                                            *)
Empty ==
  LET none(d) == [k \in exact[d].classes |-> {}]
      alive == [d \in Dv |-> Certain]
  IN [seen |-> [d \in Dv |-> [fixed |-> none(d), pass |-> none(d)]],
      alive |-> alive, totals |-> TotalsOf(alive)]

(* chances: no fixed sum that is reached fails where their ranks agree.    *)
Chances(d, rank, fixed, pass) ==
  [r \in Residue |->
     LET k == exact[d].class_of[r]
     IN IF k \notin exact[d].classes THEN rank ELSE IF fixed[k] = pass[k] THEN fixed[k] ELSE Never]

AliveOf(seen, d, rank) ==
  LET rank_of(subs) == [k \in DOMAIN subs |-> Rank(subs[k])]
  IN Chances(d, rank, rank_of(seen.fixed), rank_of(seen.pass))

SeenAfter(seen, d, c) ==
  LET v == exact[d].sums[c]
      classes == exact[d].classes
  IN [fixed |-> [k \in classes |-> Insert(seen.fixed[k], Reduce(k.fixed, v))],
      pass |-> [k \in classes |-> Insert(seen.pass[k], Reduce(k.pass, v))]]

AliveAfter(seen, d, c, rank) ==
  LET v == exact[d].sums[c]
      classes == exact[d].classes
      After(sub, w) == Rank(sub) + (IF Grows(sub, w) THEN 1 ELSE 0)
  IN Chances(d, rank,
       [k \in classes |-> After(seen.fixed[k], Reduce(k.fixed, v))],
       [k \in classes |-> After(seen.pass[k], Reduce(k.pass, v))])

(* Exact::add, for these DVs.  The totals are left behind.                 *)
Put(at, gained, c, rs) ==
  LET seen == [d \in Dv |-> IF d \in gained THEN SeenAfter(at.seen[d], d, c) ELSE at.seen[d]]
  IN [seen |-> seen,
      alive |-> [d \in Dv |-> IF d \in gained THEN AliveOf(seen[d], d, rs[d]) ELSE at.alive[d]],
      totals |-> at.totals]

Totalled(at) == [seen |-> at.seen, alive |-> at.alive, totals |-> TotalsOf(at.alive)]

PlusGained(rs, gained) == [d \in Dv |-> IF d \in gained THEN rs[d] + 1 ELSE rs[d]]

NoFill == [conds |-> {}]
-----------------------------------------------------------------------------
LastInit ==
  /\ stage = "forms" /\ linear = << >> /\ cands = {}
  /\ exact = [d \in {} |-> << >>]
  /\ prefix = {} /\ live = NoForests /\ ranks = [d \in Dv |-> 0]
  /\ last = << >>
  /\ fill = NoFill

MakeForms ==
  /\ stage = "forms" /\ linear' = Forms
  /\ cands' = Candidates(FoldLeft(Applied, NoForests, Ubcs))
  /\ stage' = "new"
  /\ UNCHANGED <<exact, prefix, live, ranks, last, fill>>

(* Exact::new, one DV.                                                     *)
Exactly(d) ==
  LET class_of == ClassesOf(d, linear)
  IN [class_of |-> class_of,
      classes |-> { k \in Range(class_of) : k.fixed # {} },
      sums |-> [c \in { e \in cands : d \in e.dvs } |-> DvSum(d, c)]]

New ==
  /\ stage = "new" /\ DOMAIN exact # Dv
  /\ LET next == Min(Dv \ DOMAIN exact)
     IN exact' = [d \in DOMAIN exact \cup {next} |-> IF d = next THEN Exactly(d) ELSE exact[d]]
  /\ UNCHANGED <<stage, linear, cands, prefix, live, ranks, last, fill>>

(* Search::state begins from nothing.                                      *)
Restart ==
  /\ \/ stage = "new" /\ DOMAIN exact = Dv
     \/ stage = "ready" /\ fill = NoFill
  /\ prefix' = {} /\ live' = NoForests /\ ranks' = [d \in Dv |-> 0]
  /\ last' = Empty
  /\ stage' = "add"
  /\ UNCHANGED <<linear, cands, exact, fill>>

(* Search::add, one condition.                                             *)
Add(c) ==
  /\ stage = "add" /\ Cardinality(prefix) < TAKEN
  /\ LET gained == Gained(live, c)
     IN /\ ranks' = PlusGained(ranks, gained)
        /\ last' = Put(last, gained, c, ranks')
  /\ live' = Applied(live, c)
  /\ prefix' = prefix \cup {c}
  /\ UNCHANGED <<stage, linear, cands, exact, fill>>

AddEnds ==
  /\ stage = "add"
  /\ last' = Totalled(last)
  /\ stage' = "ready"
  /\ UNCHANGED <<linear, cands, exact, prefix, live, ranks, fill>>

(* Search::fill, its first lines.                                          *)
BeginFill ==
  /\ stage = "ready" /\ fill = NoFill
  /\ fill' = [conds |-> {}, trial |-> live, ranks |-> ranks, last |-> [d \in {} |-> << >>],
              totals |-> last.totals, means |-> Means(last.alive)]
  /\ UNCHANGED <<stage, linear, cands, exact, prefix, live, ranks, last>>

At_State(d) == [seen |-> last.seen[d], alive |-> last.alive[d]]

(* at: where the fill stands for a DV, on top of the state.                *)
At(d) ==
  IF d \in DOMAIN fill.last THEN fill.last[d]
  ELSE [seen |-> last.seen[d], alive |-> last.alive[d]]

(* What DVs have seen and their chances, with one more condition.          *)
AfterPick(gained, c, rs) ==
  [d \in gained |->
     [seen |-> SeenAfter(At(d).seen, d, c), alive |-> AliveAfter(At(d).seen, d, c, rs[d])]]

Swapped(totals, after) ==
  FoldSet(LAMBDA d, all : Swap(all, At(d).alive, after[d].alive), totals, DOMAIN after)

(* Search::fill, a lane and the option picked for it.                      *)
Pick(c) ==
  /\ stage = "ready" /\ fill # NoFill
  /\ Cardinality(fill.conds) < LANES /\ Cardinality(prefix \cup fill.conds) < TAKEN
  /\ LET gained == Gained(fill.trial, c)
         rs == PlusGained(fill.ranks, gained)
         after == AfterPick(gained, c, rs)
     IN /\ gained # {}
        /\ fill' = [conds |-> fill.conds \cup {c}, trial |-> Applied(fill.trial, c), ranks |-> rs,
                    last |-> [d \in gained \cup DOMAIN fill.last |->
                                IF d \in gained THEN after[d] ELSE fill.last[d]],
                    totals |-> Swapped(fill.totals, after),
                    means |-> [d \in Dv |-> IF d \in gained THEN Mean(after[d].alive) ELSE fill.means[d]]]
  /\ UNCHANGED <<stage, linear, cands, exact, prefix, live, ranks, last>>

(* The fill is given up, or is not the best.                               *)
Drop ==
  /\ stage = "ready" /\ fill # NoFill
  /\ fill' = NoFill
  /\ UNCHANGED <<stage, linear, cands, exact, prefix, live, ranks, last>>

(* State::commit                                                           *)
Commit ==
  /\ stage = "ready" /\ fill # NoFill /\ fill.conds # {}
  /\ prefix' = prefix \cup fill.conds
  /\ live' = fill.trial /\ ranks' = fill.ranks
  /\ last' = Totalled([seen |-> [d \in Dv |-> At(d).seen], alive |-> [d \in Dv |-> At(d).alive]])
  /\ fill' = NoFill
  /\ UNCHANGED <<stage, linear, cands, exact>>

(* last_of: the conditions again, by their sums alone.                     *)
LastOf(conds) ==
  LET One(c, at) ==
        LET spans == [d \in Dv |-> IF d \in c.dvs THEN Insert(at.spans[d], DvSum(d, c)) ELSE at.spans[d]]
        IN [spans |-> spans, last |-> Put(at.last, c.dvs, c, [d \in Dv |-> Rank(spans[d])])]
  IN Totalled(FoldSet(One, [spans |-> [d \in Dv |-> {}], last |-> Empty], conds).last)

(* tail_of and cliffs, for the finished prefix.                            *)
Report ==
  /\ stage = "ready" /\ fill = NoFill
  /\ last' = LastOf(prefix)
  /\ stage' = "report"
  /\ UNCHANGED <<linear, cands, exact, prefix, live, ranks, fill>>

Cliffs == { r \in Residue : last.totals[r].certain > 0 }

LastDone == stage = "report" /\ UNCHANGED lastVars

LastNext ==
  \/ MakeForms \/ New \/ Restart
  \/ \E c \in cands \ (prefix \cup fill.conds) : Add(c) \/ Pick(c)
  \/ AddEnds \/ BeginFill \/ Drop \/ Commit \/ Report \/ LastDone

LastSpec == LastInit /\ [][LastNext]_lastVars
-----------------------------------------------------------------------------
(* The last blocks of all the messages with r bytes left over, as the      *)
(* standard pads them, by their set bits.                                  *)
LengthField(n) == { LengthBit(b) : b \in { b \in 0 .. WORD - 1 : (n \div 2 ^ b) % 2 = 1 } }

MessagesEnd(r) ==
  LET room == (WORDS - LENGTH_WORDS) * WORD_BYTES
      before == { n \in 0 .. 2 ^ LENGTH_BITS - 1 : n % (RESIDUES * BYTE) = r * BYTE }
      data == IF r >= room THEN {{}} ELSE SUBSET { ByteBit(k, q) : k \in 0 .. r - 1, q \in 0 .. BYTE - 1 }
      marker == IF r >= room THEN {} ELSE {ByteBit(r, BYTE - 1)}
  IN { bytes \cup marker \cup LengthField(n) : bytes \in data, n \in before }

(* The schedule of a block, by the recurrence.                             *)
ScheduleOf(block) ==
  LET Word(w, t) ==
        IF t < WORDS THEN { b \in 0 .. WORD - 1 : t * WORD + b \in block }
        ELSE { (b + 1) % WORD : b \in SumOf([k \in Taps |-> w[t + 1 - k]]) }
  IN FoldLeft(LAMBDA w, t : Append(w, Word(w, t)), << >>, [n \in 1 .. STEPS |-> n - 1])

Value(w, x) == IF x[2] \in w[x[1] + 1] THEN 1 ELSE 0

(* By the forms, which are checked against the schedule once.              *)
BitOf(block, x) == Cardinality(linear[x[1] + 1][x[2]] \cap block) % 2

FormsSpellSchedules ==
  \A r \in Residue : \A block \in MessagesEnd(r) :
    LET w == ScheduleOf(block) IN \A x \in Vertex : BitOf(block, x) = Value(w, x)

Survives(d, conds, block) ==
  \A c \in conds : d \in c.dvs => Xor(BitOf(block, c.u), BitOf(block, c.v)) = c.c

(* The chance that is worked out for a DV and a residue is the share of    *)
(* last blocks on which every condition taken holds for it, in the state,  *)
(* in a fill, and in the report, which goes by the sums alone; 0 and 1 are *)
(* exactly never and always (exact_chances_match_counting).                *)
ChancesMatchCounting ==
  /\ stage = "new" => FormsSpellSchedules
  /\ stage \in {"ready", "report"} =>
       LET conds == prefix \cup fill.conds
           Alive(d) == IF fill = NoFill THEN last.alive[d] ELSE At(d).alive
       IN \A r \in Residue :
            LET blocks == MessagesEnd(r)
            IN \A d \in Dv :
                 Cardinality({ b \in blocks : Survives(d, conds, b) }) * 2 ^ TAKEN
                   = Cardinality(blocks) * Units(Alive(d)[r])

(* What is moved on with each condition is what comes out from the start:  *)
(* a state's totals are those of its chances, also after a fill was taken  *)
(* in, and a fill's totals, means and chances those of where it stands.    *)
TotalsFollow ==
  /\ stage \in {"ready", "report"} => last.totals = TotalsOf(last.alive)
  /\ fill # NoFill =>
       LET alive == [d \in Dv |-> At(d).alive]
       IN /\ fill.totals = TotalsOf(alive)
          /\ fill.means = Means(alive)
          /\ \A d \in Dv : alive[d] = AliveOf(At(d).seen, d, fill.ranks[d])
=============================================================================
