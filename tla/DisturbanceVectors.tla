------------------------- MODULE DisturbanceVectors -------------------------
(***************************************************************************)
(* The message differences of the 32 disturbance vectors, as               *)
(* src/ubc_check.rs derives them from one seed for each family, and what   *)
(* the conditions of the filter ask of a schedule.                         *)
(*                                                                         *)
(* A word is the set of its one bits, and a schedule or a difference the   *)
(* sequence of its words, step t at t + 1.                                 *)
(***************************************************************************)
EXTENDS UbcTables, FiniteSets, SequencesExt

Rotated(x, r) == {(b + r) % 32 : b \in x}

(* The recurrence of Schedule::expand and of the table's own expand.  It   *)
(* reaches back three words, so three can be written at once.              *)
NextThree(s) ==
  LET at(t) == s[t + 1]
      word(t) == Rotated(SymDiff(SymDiff(at(t - 3), at(t - 8)),
                                 SymDiff(at(t - 14), at(t - 16))), 1)
      next == Len(s)
  IN s \o <<word(next), word(next + 1), word(next + 2)>>

Expanded(s, threes) == FoldLeft(LAMBDA v, i : NextThree(v), s, [i \in 1..threes |-> i])

(* The schedule of a block, given the one bits of its sixteen words.  It   *)
(* is written in threes to two words past its end.                         *)
ScheduleOf(block) ==
  SubSeq(Expanded([t \in 1..16 |-> {b \in 0..31 : 32 * (t - 1) + b \in block}], 22), 1, 80)

Bit(s, k) == k % 32 \in s[(k \div 32) + 1]

-----------------------------------------------------------------------------
(* 96 words and one more, which no offset reaches.                         *)
TYPE_I_DM == Expanded(TYPE_I_SEED, 27)
TYPE_II_DM == Expanded(TYPE_II_SEED, 27)

message_difference_Unrotated(family, k, b) ==
  LET base == IF family = "I" THEN TYPE_I_DM ELSE TYPE_II_DM
      offset == (IF family = "I" THEN TYPE_I_K ELSE TYPE_II_K) - k
  IN [t \in 1..80 |-> base[t + offset]]

message_difference(family, k, b) ==
  LET base == IF family = "I" THEN TYPE_I_DM ELSE TYPE_II_DM
      offset == (IF family = "I" THEN TYPE_I_K ELSE TYPE_II_K) - k
  IN [t \in 1..80 |-> Rotated(base[t + offset], b)]

(* SHA1_DVS: the dm of each row.                                           *)
SHA1_DVS == [dv \in DVs |-> LET row == DVS[dv + 1] IN message_difference(row.family, row.k, row.b)]

recompress_from_LateByOne(dv) ==
  IF DVS[dv + 1].from = 58 /\ DVS[dv + 1].k < 49 THEN 58 ELSE 65

(* Info::recompress_from: the stored state the pair is recompressed from.  *)
recompress_from(dv) == DVS[dv + 1].from

(* The local-collision sum the table is built from: a disturbance d[t]     *)
(* goes into step t, and the differences of the five steps after it take   *)
(* it out of the state again.  This is that sum solved for the disturbance *)
(* of the step after those d lists, given the difference of its words.     *)
Correction(d) ==
  LET back(i) == d[Len(d) + 1 - i]
  IN SymDiff(SymDiff(Rotated(back(1), 5), back(2)),
             Rotated(SymDiff(SymDiff(back(3), back(4)), back(5)), 30))

(* The disturbances from step from on, if there were none in the five      *)
(* steps before: the state at from is the same for both blocks.            *)
DisturbancesFrom(dm, from) ==
  FoldLeft(LAMBDA d, t : Append(d, SymDiff(dm[t + 1], Correction(d))),
           <<{}, {}, {}, {}, {}>>, [i \in 1 .. 80 - from |-> from + i - 1])

(* A disturbance vector obeys the recurrence of the expansion, so that was *)
(* right to suppose if these do.                                           *)
AgreeAt(dm, from) ==
  LET d == DisturbancesFrom(dm, from)
  IN \A t \in 17 .. Len(d) :
       d[t] = Rotated(SymDiff(SymDiff(d[t - 3], d[t - 8]), SymDiff(d[t - 14], d[t - 16])), 1)

StartsTogether == [dv \in DVs |-> AgreeAt(SHA1_DVS[dv], recompress_from(dv))]

-----------------------------------------------------------------------------
(* A condition <<u, v, c>> holds where the XOR of bits u and v is c.       *)
BitXor(s, u, v) == IF Bit(s, u) = Bit(s, v) THEN 0 ELSE 1

Holds(s, cond) == BitXor(s, cond[1], cond[2]) = cond[3]

(* The rules of the C original, each as a condition of its DV.             *)
RulesFor == [dv \in DVs |->
  UNION {{<<RULES[r][2], v, 0>> : v \in RULES[r][3]}
           \cup {<<RULES[r][2], v, 1>> : v \in RULES[r][4]}
         : r \in {r \in DOMAIN RULES : RULES[r][1] = dv}}]

(* upstream_mask: a DV survives exactly where all its rules hold.          *)
upstream_mask(s) == {dv \in DVs : \A cond \in RulesFor[dv] : Holds(s, cond)}

Published == [dv \in DVs |->
  {<<32 * UBCS[r][1] + UBCS[r][2], 32 * UBCS[r][3] + UBCS[r][4], UBCS[r][5]>>
     : r \in {r \in DOMAIN UBCS : dv \in UBCS[r][6]}}]

-----------------------------------------------------------------------------
(* What a set of conditions says, whatever basis it is written in: the     *)
(* bits it ties, each with the first bit of its group and whether it is    *)
(* that bit's complement, unless no schedule meets them: then a bit is     *)
(* asked for two values.                                                   *)
Contradiction == [x \in {0} |-> <<x, 2>>]

Tie(cond, ties) ==
  IF ties = Contradiction THEN ties
  ELSE LET a == ties[cond[1]]
           b == ties[cond[2]]
           odd == (a[2] + b[2] + cond[3]) % 2
           kept == IF a[1] < b[1] THEN a[1] ELSE b[1]
       IN IF a[1] = b[1]
          THEN IF odd = 0 THEN ties ELSE Contradiction
          ELSE [x \in DOMAIN ties |->
                 IF ties[x][1] \in {a[1], b[1]} \ {kept}
                 THEN <<kept, (ties[x][2] + odd) % 2>> ELSE ties[x]]

Span(conds) ==
  FoldSet(Tie, [x \in UNION {{cond[1], cond[2]} : cond \in conds} |-> <<x, 0>>], conds)

SpanOf(table) == [dv \in DVs |-> Span(table[dv])]
=============================================================================
