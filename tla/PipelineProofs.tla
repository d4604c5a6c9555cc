--------------------------- MODULE PipelineProofs ---------------------------
(***************************************************************************)
(* Proofs about the compressions of a block, for any words with the laws   *)
(* Steps and Lanes name, any blocks, chaining values and candidates:       *)
(* whichever backend runs leaves what the schoolbook compression does.     *)
(***************************************************************************)
EXTENDS Pipelines, TLAPS, SequenceTheorems

-----------------------------------------------------------------------------
(* Words.                                                                  *)
LEMMA WordType ==
  /\ Zero \in Word
  /\ \A x, y \in Word : Plus(x, y) \in Word /\ Minus(x, y) \in Word /\ Xor(x, y) \in Word
  /\ \A x \in Word : /\ Rol(1, x) \in Word /\ Rol(2, x) \in Word /\ Rol(5, x) \in Word
                     /\ Rol(30, x) \in Word /\ Ror(30, x) \in Word
  /\ \A q \in 0 .. 3 : K[q] \in Word
<1>1. \A x, y \in Word : Plus(x, y) \in Word /\ Minus(x, y) \in Word /\ Xor(x, y) \in Word
  BY WordAssumption
<1>2. \A x \in Word, n \in {1, 2, 5, 30} : Rol(n, x) \in Word /\ Ror(n, x) \in Word
  BY WordAssumption
<1>3. K \in [0 .. 3 -> Word] /\ Zero \in Word
  BY WordAssumption, ZeroAssumption
<1> QED BY <1>1, <1>2, <1>3

LEMMA PlusLaws ==
  \A x, y, z \in Word : Plus(x, y) = Plus(y, x) /\ Plus(x, Plus(y, z)) = Plus(Plus(x, y), z)
BY PlusAssumption

LEMMA XorBits ==
  ASSUME NEW x \in Word, NEW y \in Word, NEW i
  PROVE  i \in BitsOf(Xor(x, y)) <=> ~(i \in BitsOf(x) <=> i \in BitsOf(y))
<1>1. BitsOf(Xor(x, y)) = (BitsOf(x) \ BitsOf(y)) \cup (BitsOf(y) \ BitsOf(x))
  BY XorAssumption
<1> QED BY <1>1

LEMMA SameBits ==
  ASSUME NEW x \in Word, NEW y \in Word, \A i : i \in BitsOf(x) <=> i \in BitsOf(y)
  PROVE  x = y
<1>1. BitsOf(x) = BitsOf(y)
  OBVIOUS
<1> QED BY <1>1, XorAssumption

LEMMA XorZero ==
  /\ \A x \in Word : Xor(x, Zero) = x /\ Xor(x, x) = Zero
  /\ Rol(1, Zero) = Zero
<1>1. \A x \in Word : Xor(x, Zero) = x
  BY ZeroAssumption
<1>2. \A i : i \notin BitsOf(Zero)
  BY <1>1, XorBits, WordType
<1>3. ASSUME NEW x \in Word PROVE Xor(x, x) = Zero
  <2>1. \A i : i \in BitsOf(Xor(x, x)) <=> i \in BitsOf(Zero)
    BY <1>2, XorBits
  <2> QED BY <2>1, SameBits, WordType
<1>4. Rol(1, Xor(Zero, Zero)) = Xor(Rol(1, Zero), Rol(1, Zero))
  BY XorAssumption, WordType
<1>5. Rol(1, Zero) \in Word
  BY WordType
<1> QED BY <1>1, <1>3, <1>4, <1>5, WordType

(* Four words, as the recurrence of the schedule adds them.                *)
FourXor(a, b, c, d) == Xor(Xor(Xor(a, b), c), d)

LEMMA FourXorType ==
  ASSUME NEW a \in Word, NEW b \in Word, NEW c \in Word, NEW d \in Word
  PROVE  FourXor(a, b, c, d) \in Word
BY WordType DEF FourXor

LEMMA FourXorBits ==
  ASSUME NEW a \in Word, NEW b \in Word, NEW c \in Word, NEW d \in Word, NEW i
  PROVE  i \in BitsOf(FourXor(a, b, c, d))
           <=> ~((i \in BitsOf(a) <=> i \in BitsOf(b)) <=> (i \in BitsOf(c) <=> i \in BitsOf(d)))
<1>1. Xor(a, b) \in Word /\ Xor(Xor(a, b), c) \in Word
  BY WordType
<1> QED BY <1>1, XorBits DEF FourXor

(* The orders in which the instructions add them.                          *)
LEMMA FourXorOrders ==
  ASSUME NEW a \in Word, NEW b \in Word, NEW c \in Word, NEW d \in Word
  PROVE  /\ FourXor(a, b, c, d) = FourXor(d, c, b, a)
         /\ FourXor(b, a, c, d) = FourXor(d, c, b, a)
<1>1. /\ FourXor(a, b, c, d) \in Word /\ FourXor(d, c, b, a) \in Word
      /\ FourXor(b, a, c, d) \in Word
  BY FourXorType
<1>2. \A i : i \in BitsOf(FourXor(a, b, c, d)) <=> i \in BitsOf(FourXor(d, c, b, a))
  BY FourXorBits
<1>3. \A i : i \in BitsOf(FourXor(b, a, c, d)) <=> i \in BitsOf(FourXor(d, c, b, a))
  BY FourXorBits
<1> QED BY <1>1, <1>2, <1>3, SameBits

LEMMA RolFourXor ==
  ASSUME NEW a \in Word, NEW b \in Word, NEW c \in Word, NEW d \in Word
  PROVE  Rol(1, FourXor(a, b, c, d)) = FourXor(Rol(1, a), Rol(1, b), Rol(1, c), Rol(1, d))
<1>1. Xor(a, b) \in Word /\ Xor(Xor(a, b), c) \in Word
  BY WordType
<1>2. \A x, y \in Word : Rol(1, Xor(x, y)) = Xor(Rol(1, x), Rol(1, y))
  BY XorAssumption
<1> QED BY <1>1, <1>2 DEF FourXor

(* expand_rol2's "recurrence applied twice": the words six, eleven,        *)
(* seventeen, nineteen, ... steps back that are added an even number of    *)
(* times go out.                                                           *)
LEMMA RecurrenceTwice ==
  ASSUME NEW x \in [1 .. 10 -> Word]
  PROVE  Rol(1, FourXor(Rol(1, FourXor(x[4], x[5], x[6], x[7])),
                        Rol(1, FourXor(x[5], x[3], x[8], x[9])),
                        Rol(1, FourXor(x[6], x[8], x[2], x[10])),
                        Rol(1, FourXor(x[7], x[9], x[10], x[1]))))
           = Rol(2, FourXor(x[1], x[2], x[3], x[4]))
<1> DEFINE p == FourXor(x[4], x[5], x[6], x[7])
           q == FourXor(x[5], x[3], x[8], x[9])
           r == FourXor(x[6], x[8], x[2], x[10])
           u == FourXor(x[7], x[9], x[10], x[1])
           four == FourXor(x[1], x[2], x[3], x[4])
<1>p. p \in Word /\ \A n : n \in BitsOf(p)
                      <=> ~((n \in BitsOf(x[4]) <=> n \in BitsOf(x[5])) <=> (n \in BitsOf(x[6]) <=> n \in BitsOf(x[7])))
  <2>1. x[4] \in Word /\ x[5] \in Word /\ x[6] \in Word /\ x[7] \in Word
    OBVIOUS
  <2> QED BY <2>1, FourXorBits, FourXorType
<1>q. q \in Word /\ \A n : n \in BitsOf(q)
                      <=> ~((n \in BitsOf(x[5]) <=> n \in BitsOf(x[3])) <=> (n \in BitsOf(x[8]) <=> n \in BitsOf(x[9])))
  <2>1. x[5] \in Word /\ x[3] \in Word /\ x[8] \in Word /\ x[9] \in Word
    OBVIOUS
  <2> QED BY <2>1, FourXorBits, FourXorType
<1>r. r \in Word /\ \A n : n \in BitsOf(r)
                      <=> ~((n \in BitsOf(x[6]) <=> n \in BitsOf(x[8])) <=> (n \in BitsOf(x[2]) <=> n \in BitsOf(x[10])))
  <2>1. x[6] \in Word /\ x[8] \in Word /\ x[2] \in Word /\ x[10] \in Word
    OBVIOUS
  <2> QED BY <2>1, FourXorBits, FourXorType
<1>u. u \in Word /\ \A n : n \in BitsOf(u)
                      <=> ~((n \in BitsOf(x[7]) <=> n \in BitsOf(x[9])) <=> (n \in BitsOf(x[10]) <=> n \in BitsOf(x[1])))
  <2>1. x[7] \in Word /\ x[9] \in Word /\ x[10] \in Word /\ x[1] \in Word
    OBVIOUS
  <2> QED BY <2>1, FourXorBits, FourXorType
<1>four. four \in Word /\ \A n : n \in BitsOf(four)
                      <=> ~((n \in BitsOf(x[1]) <=> n \in BitsOf(x[2])) <=> (n \in BitsOf(x[3]) <=> n \in BitsOf(x[4])))
  <2>1. x[1] \in Word /\ x[2] \in Word /\ x[3] \in Word /\ x[4] \in Word
    OBVIOUS
  <2> QED BY <2>1, FourXorBits, FourXorType
<1> HIDE DEF p, q, r, u, four
<1>1. FourXor(p, q, r, u) \in Word /\ \A n : n \in BitsOf(FourXor(p, q, r, u))
                      <=> ~((n \in BitsOf(p) <=> n \in BitsOf(q)) <=> (n \in BitsOf(r) <=> n \in BitsOf(u)))
  <2>1. p \in Word /\ q \in Word /\ r \in Word /\ u \in Word
    BY <1>p, <1>q, <1>r, <1>u
  <2> QED BY <2>1, FourXorBits, FourXorType
<1>2. \A n : n \in BitsOf(FourXor(p, q, r, u)) <=> n \in BitsOf(four)
  <2> SUFFICES ASSUME NEW n PROVE n \in BitsOf(FourXor(p, q, r, u)) <=> n \in BitsOf(four)
    OBVIOUS
  <2>1. n \in BitsOf(p)
          <=> ~((n \in BitsOf(x[4]) <=> n \in BitsOf(x[5])) <=> (n \in BitsOf(x[6]) <=> n \in BitsOf(x[7])))
    BY <1>p
  <2>2. n \in BitsOf(q)
          <=> ~((n \in BitsOf(x[5]) <=> n \in BitsOf(x[3])) <=> (n \in BitsOf(x[8]) <=> n \in BitsOf(x[9])))
    BY <1>q
  <2>3. n \in BitsOf(r)
          <=> ~((n \in BitsOf(x[6]) <=> n \in BitsOf(x[8])) <=> (n \in BitsOf(x[2]) <=> n \in BitsOf(x[10])))
    BY <1>r
  <2>4. n \in BitsOf(u)
          <=> ~((n \in BitsOf(x[7]) <=> n \in BitsOf(x[9])) <=> (n \in BitsOf(x[10]) <=> n \in BitsOf(x[1])))
    BY <1>u
  <2>5. n \in BitsOf(four)
          <=> ~((n \in BitsOf(x[1]) <=> n \in BitsOf(x[2])) <=> (n \in BitsOf(x[3]) <=> n \in BitsOf(x[4])))
    BY <1>four
  <2>6. n \in BitsOf(FourXor(p, q, r, u))
          <=> ~((n \in BitsOf(p) <=> n \in BitsOf(q)) <=> (n \in BitsOf(r) <=> n \in BitsOf(u)))
    BY <1>1
  <2> QED BY <2>1, <2>2, <2>3, <2>4, <2>5, <2>6
<1>3. FourXor(p, q, r, u) = four
  BY <1>four, <1>1, <1>2, SameBits
<1>4. FourXor(Rol(1, p), Rol(1, q), Rol(1, r), Rol(1, u)) = Rol(1, FourXor(p, q, r, u))
  BY <1>p, <1>q, <1>r, <1>u, RolFourXor
<1>5. Rol(2, four) = Rol(1, Rol(1, four))
  BY <1>four, XorAssumption
<1> QED BY <1>3, <1>4, <1>5 DEF p, q, r, u, four
-----------------------------------------------------------------------------
(* Steps.                                                                  *)
LEMMA AddedType ==
  ASSUME NEW q \in 0 .. 3, NEW a \in Word, NEW b \in Word, NEW c \in Word,
         NEW d \in Word, NEW x \in Word
  PROVE  /\ Plus(Rol(5, a), Term(q, b, c, d)) \in Word
         /\ Added(q, a, b, c, d, x) \in Word
<1>1. \A y, z \in Word : And(y, z) \in Word /\ Or(y, z) \in Word
  BY WordAssumption
<1>2. ch(b, c, d) \in Word /\ parity(b, c, d) \in Word /\ maj(b, c, d) \in Word
  BY <1>1, WordType DEF ch, parity, maj
<1>3. Term(q, b, c, d) \in Word
  BY <1>2, WordType DEF Term
<1> QED BY <1>3, WordType DEF Added

LEMMA StateParts ==
  ASSUME NEW r \in State
  PROVE  /\ r = <<r[1], r[2], r[3], r[4], r[5]>>
         /\ r[1] \in Word /\ r[2] \in Word /\ r[3] \in Word /\ r[4] \in Word /\ r[5] \in Word
BY DEF State

LEMMA VectorParts ==
  ASSUME NEW x \in Vector
  PROVE  /\ x = <<x[1], x[2], x[3], x[4]>>
         /\ x[1] \in Word /\ x[2] \in Word /\ x[3] \in Word /\ x[4] \in Word
BY DEF Vector

LEMMA StepType ==
  ASSUME NEW i \in Nat, NEW r \in State, NEW x \in Word, i < 80
  PROVE  Step(i, r, x) \in State /\ Unstep(i, r, x) \in State
<1> DEFINE q == i \div 20
           up == Added(q, r[1], r[2], r[3], r[4], x)
           down == Added(q, r[2], Ror(30, r[3]), r[4], r[5], x)
<1>1. q \in 0 .. 3
  BY SMT
<1>2. /\ r[1] \in Word /\ r[2] \in Word /\ r[3] \in Word /\ r[4] \in Word /\ r[5] \in Word
      /\ Ror(30, r[3]) \in Word /\ Rol(30, r[2]) \in Word
  BY StateParts, WordType
<1> HIDE DEF q
<1>3. up \in Word /\ down \in Word
  BY <1>1, <1>2, AddedType
<1>4. /\ Step(i, r, x) = <<Plus(r[5], up), r[1], Rol(30, r[2]), r[3], r[4]>>
      /\ Unstep(i, r, x) = <<r[2], Ror(30, r[3]), r[4], r[5], Minus(r[1], down)>>
  BY DEF Step, Unstep, q
<1> HIDE DEF up, down
<1>5. Plus(r[5], up) \in Word /\ Minus(r[1], down) \in Word
  BY <1>2, <1>3, WordType
<1> QED BY <1>2, <1>4, <1>5 DEF State

(* A step can be undone.                                                   *)
LEMMA StepInverse ==
  ASSUME NEW i \in Nat, NEW r \in State, NEW x \in Word, i < 80
  PROVE  Unstep(i, Step(i, r, x), x) = r
<1> DEFINE q == i \div 20
           up == Added(q, r[1], r[2], r[3], r[4], x)
<1>1. q \in 0 .. 3
  BY SMT
<1>2. up \in Word
  BY <1>1, StateParts, AddedType
<1>3. Ror(30, Rol(30, r[2])) = r[2] /\ Minus(Plus(r[5], up), up) = r[5]
  BY <1>2, StateParts, WordAssumption
<1>4. Step(i, r, x) = <<Plus(r[5], up), r[1], Rol(30, r[2]), r[3], r[4]>>
  BY DEF Step
<1>5. Unstep(i, <<Plus(r[5], up), r[1], Rol(30, r[2]), r[3], r[4]>>, x)
        = <<r[1], r[2], r[3], r[4], Minus(Plus(r[5], up), up)>>
  BY <1>3 DEF Unstep
<1> HIDE DEF up
<1> QED BY <1>3, <1>4, <1>5, StateParts

(* Four steps from i on, and where the fifth word comes from.              *)
FourFrom(i, r, w0, w1, w2, w3) == Step(i + 3, Step(i + 2, Step(i + 1, Step(i, r, w0), w1), w2), w3)

LEMMA FourFromParts ==
  \A i, r, w0, w1, w2, w3 :
    i \in Nat /\ i <= 76 /\ i % 4 = 0 /\ r \in State /\ {w0, w1, w2, w3} \subseteq Word =>
      /\ FourFrom(i, r, w0, w1, w2, w3) \in State
      /\ FourFrom(i, r, w0, w1, w2, w3)[5] = Rol(30, r[1])
      /\ FourRounds(i \div 20, r[1], r[2], r[3], r[4], Plus(w0, r[5]), w1, w2, w3)
           = FourFrom(i, r, w0, w1, w2, w3)
<1> TAKE i, r, w0, w1, w2, w3
<1> HAVE i \in Nat /\ i <= 76 /\ i % 4 = 0 /\ r \in State /\ {w0, w1, w2, w3} \subseteq Word
<1> DEFINE q == i \div 20
           r1 == Step(i, r, w0)
           r2 == Step(i + 1, r1, w1)
           r3 == Step(i + 2, r2, w2)
           r4 == Step(i + 3, r3, w3)
<1>1. /\ i \in Nat /\ i + 1 \in Nat /\ i + 2 \in Nat /\ i + 3 \in Nat
      /\ i < 80 /\ i + 1 < 80 /\ i + 2 < 80 /\ i + 3 < 80
  BY SMT
<1>q. /\ q \in 0 .. 3
      /\ i \div 20 = q /\ (i + 1) \div 20 = q /\ (i + 2) \div 20 = q /\ (i + 3) \div 20 = q
      /\ (20 * q) \div 20 = q
  BY SMT
<1> HIDE DEF q
<1>2. r1 \in State
  BY <1>1, StepType
<1>3. r2 \in State
  BY <1>1, <1>2, StepType
<1>4. r3 \in State
  BY <1>1, <1>3, StepType
<1>5. r4 \in State
  BY <1>1, <1>4, StepType
<1>6. r1[2] = r[1] /\ r2[3] = Rol(30, r1[2]) /\ r3[4] = r2[3] /\ r4[5] = r3[4]
  <2>1. \A j, x, y : /\ Step(j, x, y)[2] = x[1] /\ Step(j, x, y)[3] = Rol(30, x[2])
                     /\ Step(j, x, y)[4] = x[3] /\ Step(j, x, y)[5] = x[4]
    BY DEF Step
  <2> HIDE DEF r1, r2, r3
  <2>2. r2 = Step(i + 1, r1, w1) /\ r3 = Step(i + 2, r2, w2) /\ r1 = Step(i, r, w0)
    BY DEF r1, r2, r3
  <2> QED BY <2>1, <2>2
<1>7. <<Added(q, r[1], r[2], r[3], r[4], Plus(w0, r[5])), r[1], Rol(30, r[2]), r[3], r[4]>> = r1
  <2> DEFINE x == Plus(Rol(5, r[1]), Term(q, r[2], r[3], r[4]))
  <2>1. x \in Word /\ r[5] \in Word
    BY <1>q, AddedType, StateParts
  <2>2. /\ Added(q, r[1], r[2], r[3], r[4], Plus(w0, r[5])) = Plus(x, Plus(w0, r[5]))
        /\ Added(q, r[1], r[2], r[3], r[4], w0) = Plus(x, w0)
    BY DEF Added
  <2>3. r1 = <<Plus(r[5], Added(q, r[1], r[2], r[3], r[4], w0)), r[1], Rol(30, r[2]), r[3], r[4]>>
    BY <1>q DEF Step
  <2> HIDE DEF x, r1
  <2>4. Plus(x, w0) \in Word /\ Plus(x, Plus(w0, r[5])) = Plus(Plus(x, w0), r[5])
    <3>1. Plus(x, w0) \in Word
      BY <2>1, WordType
    <3>2. Plus(x, Plus(w0, r[5])) = Plus(Plus(x, w0), r[5])
      BY <2>1, PlusLaws
    <3> QED BY <3>1, <3>2
  <2>5. Plus(Plus(x, w0), r[5]) = Plus(r[5], Plus(x, w0))
    BY <2>1, <2>4, PlusLaws
  <2> QED BY <2>2, <2>3, <2>4, <2>5
<1>8. FourRounds(q, r[1], r[2], r[3], r[4], Plus(w0, r[5]), w1, w2, w3)
        = Step(20 * q, Step(20 * q, Step(20 * q, r1, w1), w2), w3)
  BY <1>7 DEF FourRounds
<1>9. \A x, y : /\ Step(20 * q, x, y) = Step(i + 1, x, y) /\ Step(20 * q, x, y) = Step(i + 2, x, y)
               /\ Step(20 * q, x, y) = Step(i + 3, x, y)
  BY <1>q DEF Step
<1>10. FourRounds(q, r[1], r[2], r[3], r[4], Plus(w0, r[5]), w1, w2, w3) = r4
  BY <1>8, <1>9
<1>11. FourFrom(i, r, w0, w1, w2, w3) = r4
  BY DEF FourFrom
<1> HIDE DEF r1, r2, r3, r4
<1> QED BY <1>5, <1>6, <1>10, <1>11 DEF q
-----------------------------------------------------------------------------
(* The histories.  What is in them: the schedule of the block so far, and  *)
(* the states of a run over it.                                            *)
IsSchedule(ws, m) ==
  /\ ws \in Seq(Word) /\ 16 <= Len(ws) /\ Len(ws) <= 80
  /\ \A i \in 1 .. 16 : ws[i] = m[i]
  /\ \A i \in 17 .. Len(ws) :
       ws[i] = Rol(1, FourXor(ws[i - 3], ws[i - 8], ws[i - 14], ws[i - 16]))

IsTrail(tr, ws, start) ==
  /\ tr \in Seq(State) /\ 1 <= Len(tr) /\ Len(tr) <= Len(ws) + 1
  /\ tr[1] = start
  /\ \A i \in 1 .. Len(tr) - 1 : tr[i + 1] = Step(i - 1, tr[i], ws[i])

Extends(long, short) == Len(short) <= Len(long) /\ \A i \in 1 .. Len(short) : long[i] = short[i]

LEMMA ExtendsOn ==
  ASSUME NEW x, NEW y, NEW z, Len(x) \in Nat, Len(y) \in Nat, Len(z) \in Nat,
         Extends(y, x), Extends(z, y)
  PROVE  Extends(z, x)
BY DEF Extends

LEMMA OneWord ==
  ASSUME NEW m, NEW ws, IsSchedule(ws, m)
  PROVE  /\ IsSchedule(OneWordOn(ws), m) /\ Extends(OneWordOn(ws), ws)
         /\ Len(OneWordOn(ws)) = IF Len(ws) < 80 THEN Len(ws) + 1 ELSE Len(ws)
<1>1. /\ Len(ws) \in Nat /\ 16 <= Len(ws) /\ Len(ws) <= 80 /\ ws \in Seq(Word)
      /\ \A j \in 1 .. Len(ws) : ws[j] \in Word
  BY DEF IsSchedule
<1>3. CASE Len(ws) >= 80
  <2>1. OneWordOn(ws) = ws
    BY <1>1, <1>3 DEF OneWordOn
  <2>2. Extends(ws, ws)
    BY <1>1 DEF Extends
  <2> QED BY <1>3, <2>1, <2>2
<1>4. CASE Len(ws) < 80
  <2> DEFINE i == Len(ws) + 1
             x == Rol(1, FourXor(ws[i - 3], ws[i - 8], ws[i - 14], ws[i - 16]))
             long == Append(ws, x)
  <2>1. i \in Nat /\ i >= 17 /\ ~(i > 80)
    BY <1>1, <1>4
  <2>2. OneWordOn(ws) = long
    BY <2>1 DEF OneWordOn, FourXor
  <2>3. x \in Word
    <3>1. /\ i - 3 \in 1 .. Len(ws) /\ i - 8 \in 1 .. Len(ws)
          /\ i - 14 \in 1 .. Len(ws) /\ i - 16 \in 1 .. Len(ws)
      BY <1>1, <1>4
    <3>2. FourXor(ws[i - 3], ws[i - 8], ws[i - 14], ws[i - 16]) \in Word
      BY <1>1, <3>1, FourXorType
    <3> QED BY <3>2, WordType
  <2>x. x = Rol(1, FourXor(ws[i - 3], ws[i - 8], ws[i - 14], ws[i - 16]))
    OBVIOUS
  <2> HIDE DEF x
  <2>4. /\ long \in Seq(Word) /\ Len(long) = Len(ws) + 1 /\ long[Len(ws) + 1] = x
        /\ \A j \in 1 .. Len(ws) : long[j] = ws[j]
    BY <1>1, <2>3
  <2> HIDE DEF long
  <2>5. ASSUME NEW j \in 17 .. Len(ws) + 1
        PROVE  long[j] = Rol(1, FourXor(long[j - 3], long[j - 8], long[j - 14], long[j - 16]))
    <3>1. /\ j - 3 \in 1 .. Len(ws) /\ j - 8 \in 1 .. Len(ws)
          /\ j - 14 \in 1 .. Len(ws) /\ j - 16 \in 1 .. Len(ws)
          /\ j = Len(ws) + 1 \/ j \in 17 .. Len(ws)
      BY <1>1
    <3>2. FourXor(long[j - 3], long[j - 8], long[j - 14], long[j - 16])
            = FourXor(ws[j - 3], ws[j - 8], ws[j - 14], ws[j - 16])
      BY <2>4, <3>1
    <3>3. CASE j = Len(ws) + 1
      BY <2>4, <2>x, <3>2, <3>3
    <3>4. CASE j \in 17 .. Len(ws)
      <4>1. ws[j] = Rol(1, FourXor(ws[j - 3], ws[j - 8], ws[j - 14], ws[j - 16]))
        BY <3>4 DEF IsSchedule
      <4>2. j \in 1 .. Len(ws)
        BY <1>1, <3>4
      <4> QED BY <2>4, <3>2, <4>1, <4>2
    <3> QED BY <3>1, <3>3, <3>4
  <2>6. ASSUME NEW j \in 1 .. 16 PROVE long[j] = m[j]
    <3>1. ws[j] = m[j]
      BY DEF IsSchedule
    <3>2. j \in 1 .. Len(ws)
      BY <1>1
    <3> QED BY <2>4, <3>1, <3>2
  <2>7. IsSchedule(long, m)
    <3>1. 16 <= Len(long) /\ Len(long) <= 80
      BY <1>1, <1>4, <2>4
    <3>2. \A j \in 17 .. Len(long) :
            long[j] = Rol(1, FourXor(long[j - 3], long[j - 8], long[j - 14], long[j - 16]))
      BY <2>4, <2>5
    <3> QED BY <2>4, <2>6, <3>1, <3>2 DEF IsSchedule
  <2>8. Extends(long, ws)
    BY <1>1, <2>4 DEF Extends
  <2> QED BY <1>4, <2>2, <2>4, <2>7, <2>8
<1> QED BY <1>1, <1>3, <1>4

LEMMA OneStep ==
  ASSUME NEW m, NEW start, NEW tr, IsTrail(tr, words, start), IsSchedule(words, m),
         Len(tr) <= Len(words)
  PROVE  /\ IsTrail(OneStepOn(tr), words, start) /\ Extends(OneStepOn(tr), tr)
         /\ Len(OneStepOn(tr)) = Len(tr) + 1
         /\ OneStepOn(tr)[Len(tr) + 1] = Step(Len(tr) - 1, tr[Len(tr)], words[Len(tr)])
<1>1. /\ Len(words) \in Nat /\ Len(words) <= 80 /\ Len(tr) \in Nat /\ 1 <= Len(tr)
      /\ Len(tr) <= Len(words) /\ Len(tr) <= 80
  BY LenProperties DEF IsSchedule, IsTrail
<1> DEFINE x == Step(Len(tr) - 1, tr[Len(tr)], words[Len(tr)])
           long == Append(tr, x)
<1>3. words[Len(tr)] \in Word
  <2>1. words \in Seq(Word)
    BY DEF IsSchedule
  <2> QED BY <1>1, <2>1, ElementOfSeq
<1>4. tr \in Seq(State) /\ \A j \in 1 .. Len(tr) : tr[j] \in State
  BY DEF IsTrail
<1>5. x \in State
  <2>1. Len(tr) - 1 \in Nat /\ Len(tr) - 1 < 80 /\ tr[Len(tr)] \in State
    BY <1>1, <1>4
  <2> QED BY <1>3, <2>1, StepType
<1>6. OneStepOn(tr) = long
  BY DEF OneStepOn
<1>x. x = Step(Len(tr) - 1, tr[Len(tr)], words[Len(tr)])
  OBVIOUS
<1> HIDE DEF x
<1>7. /\ long \in Seq(State) /\ Len(long) = Len(tr) + 1 /\ long[Len(tr) + 1] = x
      /\ \A j \in 1 .. Len(tr) : long[j] = tr[j]
  BY <1>1, <1>4, <1>5
<1> HIDE DEF long
<1>8. ASSUME NEW j \in 1 .. Len(tr)
      PROVE  long[j + 1] = Step(j - 1, long[j], words[j])
  <2>1. CASE j = Len(tr)
    <3>1. long[j] = tr[j]
      BY <1>7
    <3> QED BY <1>7, <1>x, <2>1, <3>1
  <2>2. CASE j # Len(tr)
    <3>1. j \in 1 .. Len(tr) - 1 /\ j + 1 \in 1 .. Len(tr)
      BY <1>1, <2>2
    <3>2. tr[j + 1] = Step(j - 1, tr[j], words[j])
      BY <3>1 DEF IsTrail
    <3> QED BY <1>7, <3>1, <3>2
  <2> QED BY <2>1, <2>2
<1>9. IsTrail(long, words, start)
  <2>1. long[1] = start
    <3>1. tr[1] = start
      BY DEF IsTrail
    <3> QED BY <1>1, <1>7, <3>1
  <2>2. 1 <= Len(long) /\ Len(long) <= Len(words) + 1
    BY <1>1, <1>7
  <2>3. \A j \in 1 .. Len(long) - 1 : long[j + 1] = Step(j - 1, long[j], words[j])
    BY <1>1, <1>7, <1>8
  <2> QED BY <1>7, <2>1, <2>2, <2>3 DEF IsTrail
<1>10. Extends(long, tr)
  BY <1>1, <1>7 DEF Extends
<1> QED BY <1>6, <1>7, <1>9, <1>10, <1>x

(* A longer schedule serves the same trail.                                *)
LEMMA TrailOver ==
  ASSUME NEW start, NEW tr, NEW ws, NEW long, Len(ws) \in Nat, Len(long) \in Nat,
         IsTrail(tr, ws, start), Extends(long, ws)
  PROVE  IsTrail(tr, long, start)
<1>1. /\ Len(tr) \in Nat /\ Len(tr) <= Len(ws) + 1 /\ Len(ws) <= Len(long)
  BY LenProperties DEF IsTrail, Extends
<1>2. ASSUME NEW i \in 1 .. Len(tr) - 1 PROVE tr[i + 1] = Step(i - 1, tr[i], long[i])
  <2>1. i \in 1 .. Len(ws)
    BY <1>1
  <2>2. long[i] = ws[i]
    BY <2>1 DEF Extends
  <2>3. tr[i + 1] = Step(i - 1, tr[i], ws[i])
    BY DEF IsTrail
  <2> QED BY <2>2, <2>3
<1> QED BY <1>1, <1>2 DEF IsTrail

(* Four words at once, or none when there are eighty.                      *)
LEMMA FourWords ==
  ASSUME NEW m, IsSchedule(words, m), FourWordsOn
  PROVE  /\ IsSchedule(words', m) /\ Extends(words', words)
         /\ Len(words') \in Nat
         /\ Len(words') = IF Len(words) <= 76 THEN Len(words) + 4 ELSE 80
<1> DEFINE w1 == OneWordOn(words)
           w2 == OneWordOn(w1)
           w3 == OneWordOn(w2)
           w4 == OneWordOn(w3)
<1>w. words' = w4
  BY DEF FourWordsOn
<1>0. Len(words) \in Nat /\ Len(words) <= 80
  BY LenProperties DEF IsSchedule
<1>1. /\ IsSchedule(w1, m) /\ Extends(w1, words)
      /\ Len(w1) = IF Len(words) < 80 THEN Len(words) + 1 ELSE Len(words)
  BY OneWord
<1> HIDE DEF w1
<1>2. /\ IsSchedule(w2, m) /\ Extends(w2, w1)
      /\ Len(w2) = IF Len(w1) < 80 THEN Len(w1) + 1 ELSE Len(w1)
  BY <1>1, OneWord
<1> HIDE DEF w2
<1>3. /\ IsSchedule(w3, m) /\ Extends(w3, w2)
      /\ Len(w3) = IF Len(w2) < 80 THEN Len(w2) + 1 ELSE Len(w2)
  BY <1>2, OneWord
<1> HIDE DEF w3
<1>4. /\ IsSchedule(w4, m) /\ Extends(w4, w3)
      /\ Len(w4) = IF Len(w3) < 80 THEN Len(w3) + 1 ELSE Len(w3)
  BY <1>3, OneWord
<1> HIDE DEF w4
<1>5. Len(w1) \in Nat /\ Len(w2) \in Nat /\ Len(w3) \in Nat /\ Len(w4) \in Nat
  BY <1>0, <1>1, <1>2, <1>3, <1>4
<1>6. Len(w4) = IF Len(words) <= 76 THEN Len(words) + 4 ELSE 80
  BY <1>0, <1>1, <1>2, <1>3, <1>4
<1>7. Extends(w2, words)
  BY <1>0, <1>1, <1>2, <1>5, ExtendsOn
<1>8. Extends(w3, words)
  BY <1>0, <1>3, <1>5, <1>7, ExtendsOn
<1>9. Extends(w4, words)
  BY <1>0, <1>4, <1>5, <1>8, ExtendsOn
<1> QED BY <1>w, <1>4, <1>5, <1>6, <1>9

(* Four steps at once.                                                     *)
LEMMA FourSteps ==
  ASSUME NEW m, NEW start, IsSchedule(words, m), IsTrail(trail, words, start), FourStepsOn,
         NEW i \in Nat, Len(trail) = i + 1, i + 4 <= Len(words)
  PROVE  /\ IsTrail(trail', words, start) /\ Len(trail') = i + 5
         /\ \A j \in 0 .. i : trail'[j + 1] = StateAt(j)
         /\ trail'[i + 5] = FourFrom(i, StateAt(i), W(i), W(i + 1), W(i + 2), W(i + 3))
<1> DEFINE t1 == OneStepOn(trail)
           t2 == OneStepOn(t1)
           t3 == OneStepOn(t2)
           t4 == OneStepOn(t3)
<1>t. trail' = t4
  BY DEF FourStepsOn
<1>0. Len(words) \in Nat
  BY LenProperties DEF IsSchedule
<1>1. /\ IsTrail(t1, words, start) /\ Extends(t1, trail) /\ Len(t1) = i + 2
      /\ t1[i + 2] = Step(i, trail[i + 1], words[i + 1])
  <2>1. Len(trail) <= Len(words)
    BY <1>0
  <2>2. /\ IsTrail(OneStepOn(trail), words, start) /\ Extends(OneStepOn(trail), trail)
        /\ Len(OneStepOn(trail)) = Len(trail) + 1
        /\ OneStepOn(trail)[Len(trail) + 1] = Step(Len(trail) - 1, trail[Len(trail)], words[Len(trail)])
    BY <2>1, OneStep
  <2>3. Len(trail) + 1 = i + 2 /\ Len(trail) - 1 = i
    OBVIOUS
  <2> QED BY <2>2, <2>3
<1> HIDE DEF t1
<1>2. /\ IsTrail(t2, words, start) /\ Extends(t2, t1) /\ Len(t2) = i + 3
      /\ t2[i + 3] = Step(i + 1, t1[i + 2], words[i + 2])
  <2>1. Len(t1) <= Len(words)
    BY <1>0, <1>1
  <2>2. /\ IsTrail(OneStepOn(t1), words, start) /\ Extends(OneStepOn(t1), t1)
        /\ Len(OneStepOn(t1)) = Len(t1) + 1
        /\ OneStepOn(t1)[Len(t1) + 1] = Step(Len(t1) - 1, t1[Len(t1)], words[Len(t1)])
    BY <1>1, <2>1, OneStep
  <2>3. Len(t1) + 1 = i + 3 /\ Len(t1) - 1 = i + 1
    BY <1>1
  <2> QED BY <1>1, <2>2, <2>3
<1> HIDE DEF t2
<1>3. /\ IsTrail(t3, words, start) /\ Extends(t3, t2) /\ Len(t3) = i + 4
      /\ t3[i + 4] = Step(i + 2, t2[i + 3], words[i + 3])
  <2>1. Len(t2) <= Len(words)
    BY <1>0, <1>2
  <2>2. /\ IsTrail(OneStepOn(t2), words, start) /\ Extends(OneStepOn(t2), t2)
        /\ Len(OneStepOn(t2)) = Len(t2) + 1
        /\ OneStepOn(t2)[Len(t2) + 1] = Step(Len(t2) - 1, t2[Len(t2)], words[Len(t2)])
    BY <1>2, <2>1, OneStep
  <2>3. Len(t2) + 1 = i + 4 /\ Len(t2) - 1 = i + 2
    BY <1>2
  <2> QED BY <1>2, <2>2, <2>3
<1> HIDE DEF t3
<1>4. /\ IsTrail(t4, words, start) /\ Extends(t4, t3) /\ Len(t4) = i + 5
      /\ t4[i + 5] = Step(i + 3, t3[i + 4], words[i + 4])
  <2>1. Len(t3) <= Len(words)
    BY <1>0, <1>3
  <2>2. /\ IsTrail(OneStepOn(t3), words, start) /\ Extends(OneStepOn(t3), t3)
        /\ Len(OneStepOn(t3)) = Len(t3) + 1
        /\ OneStepOn(t3)[Len(t3) + 1] = Step(Len(t3) - 1, t3[Len(t3)], words[Len(t3)])
    BY <1>3, <2>1, OneStep
  <2>3. Len(t3) + 1 = i + 5 /\ Len(t3) - 1 = i + 3
    BY <1>3
  <2> QED BY <1>3, <2>2, <2>3
<1> HIDE DEF t4
<1>5. \A j \in 0 .. i : t4[j + 1] = trail[j + 1]
  <2>1. Extends(t2, trail)
    BY <1>1, <1>2, ExtendsOn
  <2>2. Extends(t3, trail)
    BY <1>2, <1>3, <2>1, ExtendsOn
  <2>3. Extends(t4, trail)
    BY <1>3, <1>4, <2>2, ExtendsOn
  <2>4. \A j \in 0 .. i : j + 1 \in 1 .. Len(trail)
    OBVIOUS
  <2> QED BY <2>3, <2>4 DEF Extends
<1>6. t4[i + 5] = FourFrom(i, StateAt(i), W(i), W(i + 1), W(i + 2), W(i + 3))
  <2>1. /\ StateAt(i) = trail[i + 1] /\ W(i) = words[i + 1] /\ W(i + 1) = words[i + 2]
        /\ W(i + 2) = words[i + 3] /\ W(i + 3) = words[i + 4]
    BY DEF StateAt, W
  <2> QED BY <1>1, <1>2, <1>3, <1>4, <2>1 DEF FourFrom
<1> QED BY <1>t, <1>4, <1>5, <1>6 DEF StateAt
-----------------------------------------------------------------------------
(* The instructions of a backend, which its module has under names of its  *)
(* own, are those above.                                                   *)
LEMMA NiSame ==
  /\ \A i, r, x : Ni!Step(i, r, x) = Step(i, r, x) /\ Ni!Unstep(i, r, x) = Unstep(i, r, x)
  /\ \A q, a, b, c, d, x : Ni!Added(q, a, b, c, d, x) = Added(q, a, b, c, d, x)
  /\ Ni!FourWordsOn <=> FourWordsOn
  /\ Ni!FourStepsOn <=> FourStepsOn
<1>1. \A q, a, b, c, d, x : Ni!Added(q, a, b, c, d, x) = Added(q, a, b, c, d, x)
  BY DEF Ni!Added, Added, Ni!Term, Term, Ni!ch, ch, Ni!parity, parity, Ni!maj, maj
<1>2. \A i, r, x : Ni!Step(i, r, x) = Step(i, r, x) /\ Ni!Unstep(i, r, x) = Unstep(i, r, x)
  BY <1>1 DEF Ni!Step, Step, Ni!Unstep, Unstep
<1>3. \A ws : Ni!OneWordOn(ws) = OneWordOn(ws)
  BY DEF Ni!OneWordOn, OneWordOn
<1>4. \A tr : Ni!OneStepOn(tr) = OneStepOn(tr)
  BY <1>2 DEF Ni!OneStepOn, OneStepOn
<1> QED BY <1>1, <1>2, <1>3, <1>4 DEF Ni!FourWordsOn, FourWordsOn, Ni!FourStepsOn, FourStepsOn
-----------------------------------------------------------------------------
(* Groups of words, as the backends hold them: y is a schedule, and i the  *)
(* first step of the group.                                                *)
Recurs(y, i) == y[i] = Rol(1, FourXor(y[i - 3], y[i - 8], y[i - 14], y[i - 16]))
Backward(y, i) == <<y[i + 3], y[i + 2], y[i + 1], y[i]>>
Forward(y, i) == <<y[i], y[i + 1], y[i + 2], y[i + 3]>>

(* The four words of a group, with the terms in the other orders.          *)
LEMMA GroupRecurs ==
  ASSUME NEW y \in Words, NEW i \in 16 .. 76, \A j \in 16 .. i + 3 : Recurs(y, j)
  PROVE  /\ y[i] = Rol(1, FourXor(y[i - 16], y[i - 14], y[i - 8], y[i - 3]))
         /\ y[i + 1] = Rol(1, FourXor(y[i - 15], y[i - 13], y[i - 7], y[i - 2]))
         /\ y[i + 2] = Rol(1, FourXor(y[i - 14], y[i - 12], y[i - 6], y[i - 1]))
         /\ y[i + 3] = Rol(1, FourXor(y[i - 13], y[i - 11], y[i - 5], y[i]))
         /\ y[i] = Rol(1, FourXor(y[i - 14], y[i - 16], y[i - 8], y[i - 3]))
         /\ y[i + 1] = Rol(1, FourXor(y[i - 13], y[i - 15], y[i - 7], y[i - 2]))
         /\ y[i + 2] = Rol(1, FourXor(y[i - 12], y[i - 14], y[i - 6], y[i - 1]))
         /\ y[i + 3] = Rol(1, FourXor(y[i - 11], y[i - 13], y[i - 5], y[i]))
<1>1. ASSUME NEW j \in 16 .. 79, Recurs(y, j)
      PROVE  /\ y[j] = Rol(1, FourXor(y[j - 16], y[j - 14], y[j - 8], y[j - 3]))
             /\ y[j] = Rol(1, FourXor(y[j - 14], y[j - 16], y[j - 8], y[j - 3]))
  <2>1. y[j - 3] \in Word /\ y[j - 8] \in Word /\ y[j - 14] \in Word /\ y[j - 16] \in Word
    BY DEF Words
  <2>2. /\ FourXor(y[j - 16], y[j - 14], y[j - 8], y[j - 3])
             = FourXor(y[j - 3], y[j - 8], y[j - 14], y[j - 16])
        /\ FourXor(y[j - 14], y[j - 16], y[j - 8], y[j - 3])
             = FourXor(y[j - 3], y[j - 8], y[j - 14], y[j - 16])
    BY <2>1, FourXorOrders
  <2> QED BY <1>1, <2>2 DEF Recurs
<1>2. /\ i \in 16 .. 79 /\ i + 1 \in 16 .. 79 /\ i + 2 \in 16 .. 79 /\ i + 3 \in 16 .. 79
      /\ Recurs(y, i) /\ Recurs(y, i + 1) /\ Recurs(y, i + 2) /\ Recurs(y, i + 3)
  OBVIOUS
<1>3. /\ (i + 1) - 16 = i - 15 /\ (i + 1) - 14 = i - 13 /\ (i + 1) - 8 = i - 7 /\ (i + 1) - 3 = i - 2
      /\ (i + 2) - 16 = i - 14 /\ (i + 2) - 14 = i - 12 /\ (i + 2) - 8 = i - 6 /\ (i + 2) - 3 = i - 1
      /\ (i + 3) - 16 = i - 13 /\ (i + 3) - 14 = i - 11 /\ (i + 3) - 8 = i - 5 /\ (i + 3) - 3 = i
  OBVIOUS
<1>4. /\ y[i] = Rol(1, FourXor(y[i - 16], y[i - 14], y[i - 8], y[i - 3]))
      /\ y[i] = Rol(1, FourXor(y[i - 14], y[i - 16], y[i - 8], y[i - 3]))
  BY <1>1, <1>2
<1>5. /\ y[i + 1] = Rol(1, FourXor(y[i - 15], y[i - 13], y[i - 7], y[i - 2]))
      /\ y[i + 1] = Rol(1, FourXor(y[i - 13], y[i - 15], y[i - 7], y[i - 2]))
  BY <1>1, <1>2, <1>3
<1>6. /\ y[i + 2] = Rol(1, FourXor(y[i - 14], y[i - 12], y[i - 6], y[i - 1]))
      /\ y[i + 2] = Rol(1, FourXor(y[i - 12], y[i - 14], y[i - 6], y[i - 1]))
  BY <1>1, <1>2, <1>3
<1>7. /\ y[i + 3] = Rol(1, FourXor(y[i - 13], y[i - 11], y[i - 5], y[i]))
      /\ y[i + 3] = Rol(1, FourXor(y[i - 11], y[i - 13], y[i - 5], y[i]))
  BY <1>1, <1>2, <1>3
<1> QED BY <1>4, <1>5, <1>6, <1>7

(* expand_ni computes the group after four, but for the names of the       *)
(* instructions it goes through.                                           *)
ExpandNi(a, b, c, d) == sha1msg2(XorAll(sha1msg1(a, b), c), d)

LEMMA ExpandNiGroup ==
  ASSUME NEW y \in Words, NEW i \in 16 .. 76, \A j \in 16 .. i + 3 : Recurs(y, j)
  PROVE  ExpandNi(Backward(y, i - 16), Backward(y, i - 12), Backward(y, i - 8), Backward(y, i - 4))
           = Backward(y, i)
<1> DEFINE x1 == Xor(Xor(y[i - 13], y[i - 11]), y[i - 5])
           x2 == Xor(Xor(y[i - 14], y[i - 12]), y[i - 6])
           x3 == Xor(Xor(y[i - 15], y[i - 13]), y[i - 7])
           x4 == Xor(Xor(y[i - 16], y[i - 14]), y[i - 8])
<1>1. /\ Rol(1, Xor(x4, y[i - 3])) = y[i] /\ Rol(1, Xor(x3, y[i - 2])) = y[i + 1]
      /\ Rol(1, Xor(x2, y[i - 1])) = y[i + 2] /\ Rol(1, Xor(x1, y[i])) = y[i + 3]
  BY GroupRecurs DEF FourXor
<1>2. /\ Backward(y, i - 16) = <<y[i - 13], y[i - 14], y[i - 15], y[i - 16]>>
      /\ Backward(y, i - 12) = <<y[i - 9], y[i - 10], y[i - 11], y[i - 12]>>
      /\ Backward(y, i - 8) = <<y[i - 5], y[i - 6], y[i - 7], y[i - 8]>>
      /\ Backward(y, i - 4) = <<y[i - 1], y[i - 2], y[i - 3], y[i - 4]>>
  BY DEF Backward
<1>3. XorAll(sha1msg1(Backward(y, i - 16), Backward(y, i - 12)), Backward(y, i - 8))
        = <<x1, x2, x3, x4>>
  BY <1>2 DEF XorAll, Lanewise, sha1msg1
<1> HIDE DEF x1, x2, x3, x4
<1>4. ExpandNi(Backward(y, i - 16), Backward(y, i - 12), Backward(y, i - 8), Backward(y, i - 4))
        = <<Rol(1, Xor(x1, Rol(1, Xor(x4, y[i - 3])))), Rol(1, Xor(x2, y[i - 1])),
            Rol(1, Xor(x3, y[i - 2])), Rol(1, Xor(x4, y[i - 3]))>>
  BY <1>2, <1>3 DEF ExpandNi, sha1msg2
<1> QED BY <1>1, <1>4 DEF Backward

(* expand16 computes the same group with shifts: the word in the lowest    *)
(* lane, which the top lane of the result is in, is added after it.        *)
LEMMA Expand16Group ==
  ASSUME NEW y \in Words, NEW i \in 16 .. 76, \A j \in 16 .. i + 3 : Recurs(y, j)
  PROVE  expand16(Backward(y, i - 16), Backward(y, i - 12), Backward(y, i - 8), Backward(y, i - 4))
           = Backward(y, i)
<1> DEFINE x1 == Xor(Xor(y[i - 13], y[i - 11]), y[i - 5])
           x2 == Xor(Xor(y[i - 14], y[i - 12]), y[i - 6])
           x3 == Xor(Xor(y[i - 15], y[i - 13]), y[i - 7])
           x4 == Xor(Xor(y[i - 16], y[i - 14]), y[i - 8])
<1>1. /\ Rol(1, Xor(x4, y[i - 3])) = y[i] /\ Rol(1, Xor(x3, y[i - 2])) = y[i + 1]
      /\ Rol(1, Xor(x2, y[i - 1])) = y[i + 2] /\ Rol(1, Xor(x1, y[i])) = y[i + 3]
  BY GroupRecurs DEF FourXor
<1>2. /\ Backward(y, i - 16) = <<y[i - 13], y[i - 14], y[i - 15], y[i - 16]>>
      /\ Backward(y, i - 12) = <<y[i - 9], y[i - 10], y[i - 11], y[i - 12]>>
      /\ Backward(y, i - 8) = <<y[i - 5], y[i - 6], y[i - 7], y[i - 8]>>
      /\ Backward(y, i - 4) = <<y[i - 1], y[i - 2], y[i - 3], y[i - 4]>>
  BY DEF Backward
<1>3. /\ y[i] \in Word /\ y[i + 1] \in Word /\ y[i + 2] \in Word /\ y[i + 3] \in Word
      /\ y[i - 13] \in Word /\ y[i - 11] \in Word /\ y[i - 5] \in Word
  BY DEF Words
<1>4. x1 \in Word
  BY <1>3, WordType
<1>5. XorAll(XorAll(Backward(y, i - 16), alignr8(Backward(y, i - 16), Backward(y, i - 12))),
             Backward(y, i - 8))
        = <<x1, x2, x3, x4>>
  BY <1>2 DEF XorAll, Lanewise, alignr8
<1> HIDE DEF x1, x2, x3, x4
<1>6. UpOneLane(Backward(y, i - 4)) = <<Zero, y[i - 1], y[i - 2], y[i - 3]>>
  BY <1>2 DEF UpOneLane
<1>7. RolAll(1, XorAll(<<x1, x2, x3, x4>>, UpOneLane(Backward(y, i - 4))))
        = <<Rol(1, x1), y[i + 2], y[i + 1], y[i]>>
  <2>1. Xor(x1, Zero) = x1
    BY <1>4, XorZero
  <2> QED BY <1>1, <1>6, <2>1 DEF RolAll, XorAll, Lanewise
<1> DEFINE r == <<Rol(1, x1), y[i + 2], y[i + 1], y[i]>>
<1>8. RolAll(1, TopToBottom(r)) = <<Rol(1, y[i]), Zero, Zero, Zero>>
  BY XorZero DEF RolAll, TopToBottom
<1>9. XorAll(r, RolAll(1, TopToBottom(r))) = <<y[i + 3], y[i + 2], y[i + 1], y[i]>>
  <2>1. Xor(Rol(1, x1), Rol(1, y[i])) = y[i + 3]
    BY <1>1, <1>3, <1>4, XorAssumption
  <2>2. /\ Xor(y[i], Zero) = y[i] /\ Xor(y[i + 1], Zero) = y[i + 1]
        /\ Xor(y[i + 2], Zero) = y[i + 2]
    BY <1>3, XorZero
  <2> QED BY <1>8, <2>1, <2>2 DEF XorAll, Lanewise
<1> HIDE DEF r
<1>10. expand16(Backward(y, i - 16), Backward(y, i - 12), Backward(y, i - 8), Backward(y, i - 4))
        = XorAll(r, RolAll(1, TopToBottom(r)))
  BY <1>5, <1>7 DEF expand16, r
<1> QED BY <1>9, <1>10 DEF Backward

(* The recurrence twice, at a word.                                        *)
LEMMA TwiceAt ==
  ASSUME NEW y \in Words, NEW i \in 32 .. 79, \A j \in 16 .. i : Recurs(y, j)
  PROVE  y[i] = Rol(2, FourXor(y[i - 32], y[i - 28], y[i - 16], y[i - 6]))
<1> DEFINE x == <<y[i - 32], y[i - 28], y[i - 16], y[i - 6], y[i - 11],
                  y[i - 17], y[i - 19], y[i - 22], y[i - 24], y[i - 30]>>
<1>1. /\ y[i - 32] \in Word /\ y[i - 28] \in Word /\ y[i - 16] \in Word /\ y[i - 6] \in Word
      /\ y[i - 11] \in Word /\ y[i - 17] \in Word /\ y[i - 19] \in Word /\ y[i - 22] \in Word
      /\ y[i - 24] \in Word /\ y[i - 30] \in Word
  BY DEF Words
<1>2. x \in [1 .. 10 -> Word]
  BY <1>1
<1>3. /\ Recurs(y, i) /\ Recurs(y, i - 3) /\ Recurs(y, i - 8)
      /\ Recurs(y, i - 14) /\ Recurs(y, i - 16)
  OBVIOUS
<1>4. /\ y[i] = Rol(1, FourXor(y[i - 3], y[i - 8], y[i - 14], y[i - 16]))
      /\ y[i - 3] = Rol(1, FourXor(y[i - 6], y[i - 11], y[i - 17], y[i - 19]))
      /\ y[i - 8] = Rol(1, FourXor(y[i - 11], y[i - 16], y[i - 22], y[i - 24]))
      /\ y[i - 14] = Rol(1, FourXor(y[i - 17], y[i - 22], y[i - 28], y[i - 30]))
      /\ y[i - 16] = Rol(1, FourXor(y[i - 19], y[i - 24], y[i - 30], y[i - 32]))
  <2>1. /\ (i - 3) - 3 = i - 6 /\ (i - 3) - 8 = i - 11 /\ (i - 3) - 14 = i - 17 /\ (i - 3) - 16 = i - 19
        /\ (i - 8) - 3 = i - 11 /\ (i - 8) - 8 = i - 16 /\ (i - 8) - 14 = i - 22 /\ (i - 8) - 16 = i - 24
    OBVIOUS
  <2>2. /\ (i - 14) - 3 = i - 17 /\ (i - 14) - 8 = i - 22 /\ (i - 14) - 14 = i - 28 /\ (i - 14) - 16 = i - 30
        /\ (i - 16) - 3 = i - 19 /\ (i - 16) - 8 = i - 24 /\ (i - 16) - 14 = i - 30 /\ (i - 16) - 16 = i - 32
    OBVIOUS
  <2> QED BY <1>3, <2>1, <2>2 DEF Recurs
<1>5. /\ x[1] = y[i - 32] /\ x[2] = y[i - 28] /\ x[3] = y[i - 16] /\ x[4] = y[i - 6]
      /\ x[5] = y[i - 11] /\ x[6] = y[i - 17] /\ x[7] = y[i - 19] /\ x[8] = y[i - 22]
      /\ x[9] = y[i - 24] /\ x[10] = y[i - 30]
  OBVIOUS
<1> HIDE DEF x
<1>6. Rol(1, FourXor(Rol(1, FourXor(x[4], x[5], x[6], x[7])),
                     Rol(1, FourXor(x[5], x[3], x[8], x[9])),
                     Rol(1, FourXor(x[6], x[8], x[2], x[10])),
                     Rol(1, FourXor(x[7], x[9], x[10], x[1]))))
        = Rol(2, FourXor(x[1], x[2], x[3], x[4]))
  BY <1>2, RecurrenceTwice
<1> QED BY <1>4, <1>5, <1>6

LEMMA ExpandRol2Group ==
  ASSUME NEW y \in Words, NEW i \in 32 .. 76, \A j \in 16 .. i + 3 : Recurs(y, j)
  PROVE  expand_rol2(Backward(y, i - 32), Backward(y, i - 28), Backward(y, i - 16),
                     Backward(y, i - 8), Backward(y, i - 4))
           = Backward(y, i)
<1>1. \A j \in i .. i + 3 : y[j] = Rol(2, FourXor(y[j - 32], y[j - 28], y[j - 16], y[j - 6]))
  BY TwiceAt
<1>2. /\ y[i] = Rol(2, FourXor(y[i - 32], y[i - 28], y[i - 16], y[i - 6]))
      /\ y[i + 1] = Rol(2, FourXor(y[i - 31], y[i - 27], y[i - 15], y[i - 5]))
      /\ y[i + 2] = Rol(2, FourXor(y[i - 30], y[i - 26], y[i - 14], y[i - 4]))
      /\ y[i + 3] = Rol(2, FourXor(y[i - 29], y[i - 25], y[i - 13], y[i - 3]))
  <2>1. i \in i .. i + 3 /\ i + 1 \in i .. i + 3 /\ i + 2 \in i .. i + 3 /\ i + 3 \in i .. i + 3
    OBVIOUS
  <2>2. /\ (i + 1) - 32 = i - 31 /\ (i + 1) - 28 = i - 27 /\ (i + 1) - 16 = i - 15 /\ (i + 1) - 6 = i - 5
        /\ (i + 2) - 32 = i - 30 /\ (i + 2) - 28 = i - 26 /\ (i + 2) - 16 = i - 14 /\ (i + 2) - 6 = i - 4
        /\ (i + 3) - 32 = i - 29 /\ (i + 3) - 28 = i - 25 /\ (i + 3) - 16 = i - 13 /\ (i + 3) - 6 = i - 3
    OBVIOUS
  <2> QED BY <1>1, <2>1, <2>2
<1>3. /\ Backward(y, i - 32) = <<y[i - 29], y[i - 30], y[i - 31], y[i - 32]>>
      /\ Backward(y, i - 28) = <<y[i - 25], y[i - 26], y[i - 27], y[i - 28]>>
      /\ Backward(y, i - 16) = <<y[i - 13], y[i - 14], y[i - 15], y[i - 16]>>
      /\ Backward(y, i - 8) = <<y[i - 5], y[i - 6], y[i - 7], y[i - 8]>>
      /\ Backward(y, i - 4) = <<y[i - 1], y[i - 2], y[i - 3], y[i - 4]>>
  BY DEF Backward
<1>4. alignr8(Backward(y, i - 8), Backward(y, i - 4)) = <<y[i - 3], y[i - 4], y[i - 5], y[i - 6]>>
  BY <1>3 DEF alignr8
<1> DEFINE x == XorAll(XorAll(XorAll(Backward(y, i - 32), Backward(y, i - 28)), Backward(y, i - 16)),
                       alignr8(Backward(y, i - 8), Backward(y, i - 4)))
<1>5. x = <<FourXor(y[i - 29], y[i - 25], y[i - 13], y[i - 3]),
            FourXor(y[i - 30], y[i - 26], y[i - 14], y[i - 4]),
            FourXor(y[i - 31], y[i - 27], y[i - 15], y[i - 5]),
            FourXor(y[i - 32], y[i - 28], y[i - 16], y[i - 6])>>
  BY <1>3, <1>4 DEF XorAll, Lanewise, FourXor
<1>6. expand_rol2(Backward(y, i - 32), Backward(y, i - 28), Backward(y, i - 16),
                  Backward(y, i - 8), Backward(y, i - 4)) = RolAll(2, x)
  BY DEF expand_rol2
<1> HIDE DEF x
<1>7. RolAll(2, x) = <<y[i + 3], y[i + 2], y[i + 1], y[i]>>
  BY <1>2, <1>5 DEF RolAll
<1> QED BY <1>6, <1>7 DEF Backward

(* vsha1su0 over three groups and vsha1su1 over the one before.            *)
LEMMA Su0Su1Group ==
  ASSUME NEW y \in Words, NEW i \in 16 .. 76, \A j \in 16 .. i + 3 : Recurs(y, j)
  PROVE  vsha1su1(vsha1su0(Forward(y, i - 16), Forward(y, i - 12), Forward(y, i - 8)),
                  Forward(y, i - 4))
           = Forward(y, i)
<1> DEFINE x1 == Xor(Xor(y[i - 14], y[i - 16]), y[i - 8])
           x2 == Xor(Xor(y[i - 13], y[i - 15]), y[i - 7])
           x3 == Xor(Xor(y[i - 12], y[i - 14]), y[i - 6])
           x4 == Xor(Xor(y[i - 11], y[i - 13]), y[i - 5])
<1>1. /\ Rol(1, Xor(x1, y[i - 3])) = y[i] /\ Rol(1, Xor(x2, y[i - 2])) = y[i + 1]
      /\ Rol(1, Xor(x3, y[i - 1])) = y[i + 2] /\ Rol(1, Xor(x4, y[i])) = y[i + 3]
  BY GroupRecurs DEF FourXor
<1>2. /\ Forward(y, i - 16) = <<y[i - 16], y[i - 15], y[i - 14], y[i - 13]>>
      /\ Forward(y, i - 12) = <<y[i - 12], y[i - 11], y[i - 10], y[i - 9]>>
      /\ Forward(y, i - 8) = <<y[i - 8], y[i - 7], y[i - 6], y[i - 5]>>
      /\ Forward(y, i - 4) = <<y[i - 4], y[i - 3], y[i - 2], y[i - 1]>>
  BY DEF Forward
<1>3. vsha1su0(Forward(y, i - 16), Forward(y, i - 12), Forward(y, i - 8)) = <<x1, x2, x3, x4>>
  BY <1>2 DEF vsha1su0, XorAll, Lanewise
<1>4. x1 \in Word /\ x4 \in Word /\ y[i - 3] \in Word /\ y[i] \in Word
  <2>1. /\ y[i - 14] \in Word /\ y[i - 16] \in Word /\ y[i - 8] \in Word /\ y[i - 11] \in Word
        /\ y[i - 13] \in Word /\ y[i - 5] \in Word /\ y[i - 3] \in Word /\ y[i] \in Word
    BY DEF Words
  <2> QED BY <2>1, WordType
<1> HIDE DEF x1, x2, x3, x4
<1>5. vsha1su1(<<x1, x2, x3, x4>>, Forward(y, i - 4))
        = <<y[i], y[i + 1], y[i + 2], Xor(Rol(1, x4), Rol(2, Xor(x1, y[i - 3])))>>
  BY <1>1, <1>2 DEF vsha1su1
<1>6. Rol(2, Xor(x1, y[i - 3])) = Rol(1, y[i])
  <2>1. Xor(x1, y[i - 3]) \in Word
    BY <1>4, WordType
  <2> QED BY <1>1, <2>1, XorAssumption
<1>7. Xor(Rol(1, x4), Rol(1, y[i])) = y[i + 3]
  BY <1>1, <1>4, XorAssumption
<1> QED BY <1>3, <1>5, <1>6, <1>7 DEF Forward
-----------------------------------------------------------------------------
(* The histories between groups, and what a group adds to them.            *)
SchedOf(ws) == [i \in 0 .. 79 |-> IF i < Len(ws) THEN ws[i + 1] ELSE Zero]
Sched == SchedOf(words)

School ==
  /\ input \in Inputs
  /\ IsSchedule(words, input.m)
  /\ IsTrail(trail, words, input.ihv)

Known(k) == IF k < 16 THEN 16 + 4 * k ELSE 80

AtGroup(k) ==
  /\ Len(trail) = 4 * k + 1
  /\ Known(k) <= Len(words)
  /\ k < 16 => Len(words) <= Known(k)

LEMMA InputType ==
  ASSUME input \in Inputs
  PROVE  /\ input.m \in [1 .. 16 -> Word] /\ input.ihv \in State /\ input.stale \in Words
         /\ input.step \in {58, 65} /\ input.dm \in Words
BY InputsAssumption

LEMMA SchedOfWords ==
  ASSUME NEW m, NEW ws, IsSchedule(ws, m)
  PROVE  /\ SchedOf(ws) \in Words /\ Len(ws) \in Nat /\ 16 <= Len(ws) /\ Len(ws) <= 80
         /\ \A i \in Nat : i < Len(ws) => SchedOf(ws)[i] = ws[i + 1]
         /\ \A i \in 0 .. 15 : SchedOf(ws)[i] = m[i + 1]
         /\ \A i \in 16 .. 79 : i < Len(ws) => Recurs(SchedOf(ws), i)
<1>1. /\ ws \in Seq(Word) /\ Len(ws) \in Nat
      /\ 16 <= Len(ws) /\ Len(ws) <= 80
  BY LenProperties DEF IsSchedule
<1>2. \A i \in 1 .. Len(ws) : ws[i] \in Word
  BY <1>1, ElementOfSeq
<1>l. Len(ws) \in Nat /\ 16 <= Len(ws) /\ Len(ws) <= 80
  BY <1>1
<1>3. \A i \in 0 .. 79 : i < Len(ws) => i + 1 \in 1 .. Len(ws)
  BY <1>1
<1>4. \A i \in Nat : i < Len(ws) => SchedOf(ws)[i] = ws[i + 1]
  BY <1>l DEF SchedOf
<1>5. SchedOf(ws) \in Words
  <2>1. \A i \in 0 .. 79 : (IF i < Len(ws) THEN ws[i + 1] ELSE Zero) \in Word
    BY <1>2, <1>3, WordType
  <2> QED BY <2>1 DEF SchedOf, Words
<1>6. ASSUME NEW i \in 0 .. 15 PROVE SchedOf(ws)[i] = m[i + 1]
  <2>1. \A j \in 1 .. 16 : ws[j] = m[j]
    BY DEF IsSchedule
  <2>2. i + 1 \in 1 .. 16 /\ i \in 0 .. 79
    OBVIOUS
  <2>3. i < Len(ws)
    BY <1>l
  <2>4. SchedOf(ws)[i] = ws[i + 1]
    BY <1>4, <2>2, <2>3
  <2> QED BY <2>1, <2>2, <2>4
<1>7. ASSUME NEW i \in 16 .. 79, i < Len(ws) PROVE Recurs(SchedOf(ws), i)
  <2>1. i + 1 \in 17 .. Len(ws)
    BY <1>l, <1>7
  <2>2. ws[i + 1] = Rol(1, FourXor(ws[(i + 1) - 3], ws[(i + 1) - 8],
                                      ws[(i + 1) - 14], ws[(i + 1) - 16]))
    BY <2>1 DEF IsSchedule
  <2>3. /\ (i + 1) - 3 = (i - 3) + 1 /\ (i + 1) - 8 = (i - 8) + 1
        /\ (i + 1) - 14 = (i - 14) + 1 /\ (i + 1) - 16 = (i - 16) + 1
    OBVIOUS
  <2>4. /\ SchedOf(ws)[i] = ws[i + 1] /\ SchedOf(ws)[i - 3] = ws[(i - 3) + 1]
        /\ SchedOf(ws)[i - 8] = ws[(i - 8) + 1] /\ SchedOf(ws)[i - 14] = ws[(i - 14) + 1]
        /\ SchedOf(ws)[i - 16] = ws[(i - 16) + 1]
    <3>1. i \in Nat /\ i - 3 \in Nat /\ i - 8 \in Nat /\ i - 14 \in Nat /\ i - 16 \in Nat
      OBVIOUS
    <3>2. i - 3 < Len(ws) /\ i - 8 < Len(ws) /\ i - 14 < Len(ws) /\ i - 16 < Len(ws)
      BY <1>l, <1>7
    <3> QED BY <1>4, <1>7, <3>1, <3>2
  <2> QED BY <2>2, <2>3, <2>4 DEF Recurs
<1> QED BY <1>1, <1>4, <1>5, <1>6, <1>7

LEMMA SchedWords ==
  ASSUME School
  PROVE  /\ Sched \in Words /\ Len(words) \in Nat /\ Len(trail) \in Nat
         /\ 16 <= Len(words) /\ Len(words) <= 80 /\ Len(trail) <= Len(words) + 1
         /\ \A i \in Nat : i < Len(words) => Sched[i] = W(i)
         /\ \A i \in 0 .. 15 : Sched[i] = input.m[i + 1]
         /\ \A i \in 16 .. 79 : i < Len(words) => Recurs(Sched, i)
<1>1. /\ Sched \in Words /\ Len(words) \in Nat /\ 16 <= Len(words) /\ Len(words) <= 80
      /\ \A i \in Nat : i < Len(words) => Sched[i] = words[i + 1]
      /\ \A i \in 0 .. 15 : Sched[i] = input.m[i + 1]
      /\ \A i \in 16 .. 79 : i < Len(words) => Recurs(Sched, i)
  BY SchedOfWords DEF School, Sched
<1>2. Len(trail) \in Nat /\ Len(trail) <= Len(words) + 1
  BY LenProperties DEF School, IsTrail
<1> QED BY <1>1, <1>2 DEF W

LEMMA TupleLength ==
  ASSUME NEW S, NEW n \in Nat, NEW f \in [1 .. n -> S]
  PROVE  f \in Seq(S) /\ n <= Len(f) /\ Len(f) <= n
<1>1. f \in Seq(S)
  BY SeqDef
<1>2. Len(f) \in Nat /\ 1 .. Len(f) = 1 .. n
  BY <1>1, LenProperties
<1> QED BY <1>1, <1>2

LEMMA SchoolStart ==
  ASSUME SchoolStarts
  PROVE  School /\ AtGroup(0) /\ StateAt(0) = input.ihv
<1>1. input \in Inputs /\ words = input.m /\ trail = <<input.ihv>>
  BY DEF SchoolStarts
<1>2. words \in Seq(Word) /\ 16 <= Len(words) /\ Len(words) <= 16 /\ Len(words) \in Nat
  <2>1. input.m \in [1 .. 16 -> Word]
    BY <1>1, InputType
  <2>2. input.m \in Seq(Word) /\ 16 <= Len(input.m) /\ Len(input.m) <= 16
    BY <2>1, TupleLength
  <2>3. Len(input.m) \in Nat
    BY <2>2, LenProperties
  <2> QED BY <1>1, <2>2, <2>3
<1>3. trail \in Seq(State) /\ Len(trail) = 1 /\ trail[1] = input.ihv
  BY <1>1, InputType
<1>4. IsSchedule(words, input.m)
  <2>1. \A i \in 17 .. Len(words) : FALSE
    BY <1>2
  <2>2. 16 <= Len(words) /\ Len(words) <= 80
    BY <1>2
  <2> QED BY <1>1, <1>2, <2>1, <2>2 DEF IsSchedule
<1>5. IsTrail(trail, words, input.ihv)
  <2>1. 1 <= Len(trail) /\ Len(trail) <= Len(words) + 1
    BY <1>2, <1>3
  <2>2. \A i \in 1 .. Len(trail) - 1 : FALSE
    BY <1>3
  <2> QED BY <1>3, <2>1, <2>2 DEF IsTrail
<1>6. AtGroup(0)
  <2>1. Known(0) = 16
    BY DEF Known
  <2> QED BY <1>2, <1>3, <2>1 DEF AtGroup
<1> QED BY <1>1, <1>3, <1>4, <1>5, <1>6 DEF School, StateAt

LEMMA StatesOfTrail ==
  ASSUME School, NEW i \in 0 .. 79, i + 1 < Len(trail)
  PROVE  /\ StateAt(i) \in State
         /\ StateAt(i + 1) \in State
         /\ StateAt(i + 1) = Step(i, StateAt(i), Sched[i])
<1>l. /\ Len(trail) \in Nat /\ Len(words) \in Nat /\ Len(trail) <= Len(words) + 1
  BY SchedWords
<1>1. /\ i + 1 \in 1 .. Len(trail) - 1 /\ i + 1 \in 1 .. Len(trail)
      /\ i + 2 \in 1 .. Len(trail) /\ i < Len(words)
  BY <1>l
<1>s. trail \in Seq(State)
  BY DEF School, IsTrail
<1>2. trail[i + 1] \in State /\ trail[i + 2] \in State
  BY <1>s, <1>1, ElementOfSeq
<1>3. trail[(i + 1) + 1] = Step((i + 1) - 1, trail[i + 1], words[i + 1])
  <2>1. \A j \in 1 .. Len(trail) - 1 : trail[j + 1] = Step(j - 1, trail[j], words[j])
    BY DEF School, IsTrail
  <2> QED BY <1>1, <2>1
<1>4. Sched[i] = words[i + 1]
  <2>1. \A j \in Nat : j < Len(words) => Sched[j] = W(j)
    BY SchedWords
  <2> HIDE DEF Sched
  <2> QED BY <1>1, <2>1 DEF W
<1>5. (i + 1) + 1 = i + 2 /\ (i + 1) - 1 = i
  OBVIOUS
<1> QED BY <1>2, <1>3, <1>4, <1>5 DEF StateAt

LEMMA StateOfGroup ==
  ASSUME School, NEW k \in 0 .. 20, AtGroup(k)
  PROVE  StateAt(4 * k) \in State
<1>1. trail \in Seq(State) /\ 4 * k + 1 \in 1 .. Len(trail)
  BY DEF School, IsTrail, AtGroup
<1> QED BY <1>1, ElementOfSeq DEF StateAt

LEMMA KnownBounds ==
  ASSUME NEW k \in 0 .. 19
  PROVE  /\ Known(k) \in Nat /\ 16 <= Known(k) /\ Known(k) <= 80 /\ 4 * k + 4 <= Known(k)
         /\ k < 16 => Known(k) = 16 + 4 * k /\ Known(k) <= 76
         /\ k >= 16 => Known(k) = 80
         /\ Known(k + 1) = IF Known(k) < 80 THEN Known(k) + 4 ELSE Known(k)
BY DEF Known

LEMMA SchoolGroup ==
  ASSUME School, NEW k \in 0 .. 19, AtGroup(k), FourStepsOn, FourWordsOn, input' = input
  PROVE  /\ School' /\ AtGroup(k + 1)'
         /\ Sched' \in Words
         /\ \A i \in 16 .. 79 : i < Known(k + 1) => Recurs(Sched', i)
         /\ \A i \in 0 .. Known(k) - 1 : Sched'[i] = Sched[i]
         /\ \A i \in 0 .. 4 * k : StateAt(i)' = StateAt(i)
         /\ StateAt(4 * k + 4)' = FourFrom(4 * k, StateAt(4 * k), Sched[4 * k], Sched[4 * k + 1],
                                           Sched[4 * k + 2], Sched[4 * k + 3])
<1>l. Len(words) \in Nat /\ Len(words) <= 80
  BY SchedWords
<1>a. /\ Known(k) <= Len(words) /\ Len(trail) = 4 * k + 1
      /\ k < 16 => Len(words) <= Known(k)
  BY DEF AtGroup
<1>1. /\ Known(k) \in Nat /\ Known(k) <= 80 /\ 4 * k + 4 <= Known(k)
      /\ 4 * k + 4 <= Len(words)
  <2>1. /\ Known(k) \in Nat /\ Known(k) <= 80 /\ 4 * k + 4 <= Known(k)
    BY KnownBounds
  <2> QED BY <1>l, <1>a, <2>1
<1>2. /\ IsSchedule(words', input.m) /\ Extends(words', words) /\ Len(words') \in Nat
      /\ Len(words') = IF Len(words) < 80 THEN Len(words) + 4 ELSE Len(words)
  <2>1. Len(words) >= 80 \/ Len(words) <= 76
    <3>1. k < 16 => Len(words) <= 76
      <4>1. k < 16 => Known(k) <= 76 /\ Known(k) \in Nat
        BY KnownBounds
      <4> QED BY <1>l, <1>a, <4>1
    <3>2. k >= 16 => Len(words) >= 80
      BY <1>a, KnownBounds
    <3> QED BY <3>1, <3>2
  <2>2. /\ IsSchedule(words', input.m) /\ Extends(words', words) /\ Len(words') \in Nat
        /\ Len(words') = IF Len(words) <= 76 THEN Len(words) + 4 ELSE 80
    BY FourWords DEF School
  <2> QED BY <1>l, <2>1, <2>2
<1>3. /\ IsTrail(trail', words, input.ihv) /\ Len(trail') = 4 * k + 5
      /\ \A i \in 0 .. 4 * k : trail'[i + 1] = StateAt(i)
      /\ trail'[4 * k + 5] = FourFrom(4 * k, StateAt(4 * k), W(4 * k), W(4 * k + 1),
                                      W(4 * k + 2), W(4 * k + 3))
  <2>1. 4 * k \in Nat /\ 4 * k + 4 <= Len(words)
    BY <1>1
  <2> QED BY <1>a, <2>1, FourSteps DEF School
<1>4. School'
  <2>1. IsTrail(trail', words', input.ihv)
    BY <1>l, <1>2, <1>3, TrailOver
  <2> QED BY <1>2, <2>1 DEF School
<1>5. AtGroup(k + 1)'
  <2>1. Len(trail') = 4 * (k + 1) + 1
    BY <1>3
  <2>k. /\ k < 16 => Known(k) = 16 + 4 * k
        /\ k >= 16 => Known(k) = 80
        /\ Known(k + 1) = IF k < 15 THEN 20 + 4 * k ELSE 80
    BY DEF Known
  <2>2. Known(k + 1) <= Len(words')
    BY <1>l, <1>a, <1>2, <2>k
  <2>3. k + 1 < 16 => Len(words') <= Known(k + 1)
    BY <1>l, <1>a, <1>2, <2>k
  <2> QED BY <2>1, <2>2, <2>3 DEF AtGroup
<1>6. ASSUME NEW i \in 0 .. Known(k) - 1 PROVE Sched'[i] = Sched[i]
  <2>1. /\ i \in 0 .. 79 /\ i < Len(words) /\ i < Len(words') /\ i + 1 \in 1 .. Len(words)
    BY <1>l, <1>a, <1>1, <1>2
  <2>2. Sched[i] = words[i + 1] /\ Sched'[i] = words'[i + 1]
    BY <2>1 DEF Sched, SchedOf
  <2> QED BY <1>2, <2>1, <2>2 DEF Extends
<1>7. /\ Sched[4 * k] = W(4 * k) /\ Sched[4 * k + 1] = W(4 * k + 1)
      /\ Sched[4 * k + 2] = W(4 * k + 2) /\ Sched[4 * k + 3] = W(4 * k + 3)
  <2>1. /\ 4 * k \in Nat /\ 4 * k + 1 \in Nat /\ 4 * k + 2 \in Nat /\ 4 * k + 3 \in Nat
        /\ 4 * k + 3 < Len(words) /\ 4 * k + 2 < Len(words) /\ 4 * k + 1 < Len(words) /\ 4 * k < Len(words)
    BY <1>l, <1>1
  <2> QED BY <2>1, SchedWords
<1>8. (4 * k + 4) + 1 = 4 * k + 5
  OBVIOUS
<1>9. Sched' \in Words /\ \A i \in 16 .. 79 : i < Known(k + 1) => Recurs(Sched', i)
  <2>1. SchedOf(words') \in Words /\ \A i \in 16 .. 79 : i < Len(words') => Recurs(SchedOf(words'), i)
    BY <1>2, SchedOfWords
  <2>2. Sched' = SchedOf(words')
    BY DEF Sched
  <2>3. Known(k + 1) <= Len(words') /\ Known(k + 1) \in Nat
    BY <1>5, <1>2 DEF AtGroup, Known
  <2>4. ASSUME NEW i \in 16 .. 79, i < Known(k + 1) PROVE Recurs(Sched', i)
    <3>1. i < Len(words')
      BY <1>2, <2>3, <2>4
    <3> QED BY <2>1, <2>2, <3>1
  <2> QED BY <2>1, <2>2, <2>4
<1> QED BY <1>3, <1>4, <1>5, <1>6, <1>7, <1>8, <1>9 DEF StateAt
-----------------------------------------------------------------------------
(* SHA-NI.                                                                 *)
LEMMA NiSameLanes ==
  /\ \A x, y : /\ Ni!PlusAll(x, y) = PlusAll(x, y) /\ Ni!MinusAll(x, y) = MinusAll(x, y)
               /\ Ni!XorAll(x, y) = XorAll(x, y)
               /\ Ni!sha1nexte(x, y) = sha1nexte(x, y)
  /\ \A x, y, q : Ni!sha1rnds4(x, y, q) = sha1rnds4(x, y, q)
  /\ \A a, b, c, d : Ni!expand_ni(a, b, c, d) = ExpandNi(a, b, c, d)
  /\ \A a, b, c, d, x : Ni!expand_rol2(a, b, c, d, x) = expand_rol2(a, b, c, d, x)
  /\ \A array, i, x : Ni!Spilled(TRUE, array, i, x) = Spilled(TRUE, array, i, x)
  /\ \A array, i : Ni!Loaded(TRUE, array, i) = Loaded(TRUE, array, i)
<1>1. \A x, y : /\ Ni!PlusAll(x, y) = PlusAll(x, y) /\ Ni!MinusAll(x, y) = MinusAll(x, y)
                /\ Ni!XorAll(x, y) = XorAll(x, y)
                /\ Ni!sha1nexte(x, y) = sha1nexte(x, y)
  BY DEF Ni!PlusAll, PlusAll, Ni!MinusAll, MinusAll, Ni!XorAll, XorAll, Ni!Lanewise, Lanewise,
         Ni!sha1nexte, sha1nexte
<1>2. \A x, y, q : Ni!sha1rnds4(x, y, q) = sha1rnds4(x, y, q)
  <2>1. \A q, a, b, c, d, x, w1, w2, w3 :
          Ni!FourRounds(q, a, b, c, d, x, w1, w2, w3) = FourRounds(q, a, b, c, d, x, w1, w2, w3)
    BY NiSame DEF Ni!FourRounds, FourRounds
  <2> QED BY <2>1 DEF Ni!sha1rnds4, sha1rnds4
<1>3. \A a, b, c, d : Ni!expand_ni(a, b, c, d) = ExpandNi(a, b, c, d)
  <2>1. \A x, y : Ni!sha1msg1(x, y) = sha1msg1(x, y) /\ Ni!sha1msg2(x, y) = sha1msg2(x, y)
    BY DEF Ni!sha1msg1, sha1msg1, Ni!sha1msg2, sha1msg2
  <2> QED BY <1>1, <2>1 DEF Ni!expand_ni, ExpandNi
<1>4. \A a, b, c, d, x : Ni!expand_rol2(a, b, c, d, x) = expand_rol2(a, b, c, d, x)
  <2>1. \A n, x, y : Ni!RolAll(n, x) = RolAll(n, x) /\ Ni!alignr8(x, y) = alignr8(x, y)
    BY DEF Ni!RolAll, RolAll, Ni!alignr8, alignr8
  <2> QED BY <1>1, <2>1 DEF Ni!expand_rol2, expand_rol2
<1>5. \A array, i, x : Ni!Spilled(TRUE, array, i, x) = Spilled(TRUE, array, i, x)
  BY DEF Ni!Spilled, Spilled, Ni!WindowStart, WindowStart
<1>6. \A array, i : Ni!Loaded(TRUE, array, i) = Loaded(TRUE, array, i)
  BY DEF Ni!Loaded, Loaded, Ni!WindowStart, WindowStart
<1> QED BY <1>1, <1>2, <1>3, <1>4, <1>5, <1>6

(* The state reversed, and the words with the fifth added to the first.    *)
Reverse4(r) == <<r[4], r[3], r[2], r[1]>>

LEMMA NiFourRounds ==
  ASSUME NEW k \in 0 .. 19, NEW r \in State, NEW y \in Words
  PROVE  LET next == FourFrom(4 * k, r, y[4 * k], y[4 * k + 1], y[4 * k + 2], y[4 * k + 3])
         IN /\ next \in State /\ next[5] = Rol(30, r[1])
            /\ sha1rnds4(Reverse4(r), <<y[4 * k + 3], y[4 * k + 2], y[4 * k + 1], Plus(y[4 * k], r[5])>>,
                         k \div 5) = Reverse4(next)
<1> DEFINE w0 == y[4 * k]
           w1 == y[4 * k + 1]
           w2 == y[4 * k + 2]
           w3 == y[4 * k + 3]
           next == FourFrom(4 * k, r, w0, w1, w2, w3)
<1>1. w0 \in Word /\ w1 \in Word /\ w2 \in Word /\ w3 \in Word
  BY DEF Words
<1> HIDE DEF w0, w1, w2, w3
<1>k. 4 * k \in Nat /\ 4 * k <= 76 /\ (4 * k) % 4 = 0 /\ (4 * k) \div 20 = k \div 5
  BY SMT
<1>2. /\ next \in State /\ next[5] = Rol(30, r[1])
      /\ FourRounds(k \div 5, r[1], r[2], r[3], r[4], Plus(w0, r[5]), w1, w2, w3) = next
  <2> DEFINE i == 4 * k
  <2>1. i \in Nat /\ i <= 76 /\ i % 4 = 0
    BY <1>k
  <2> HIDE DEF i
  <2>2. /\ FourFrom(i, r, w0, w1, w2, w3) \in State
        /\ FourFrom(i, r, w0, w1, w2, w3)[5] = Rol(30, r[1])
        /\ FourRounds(i \div 20, r[1], r[2], r[3], r[4], Plus(w0, r[5]), w1, w2, w3)
             = FourFrom(i, r, w0, w1, w2, w3)
    BY <1>1, <2>1, FourFromParts
  <2> QED BY <1>k, <2>2 DEF i
<1> HIDE DEF next
<1>3. sha1rnds4(Reverse4(r), <<w3, w2, w1, Plus(w0, r[5])>>, k \div 5)
        = Reverse4(FourRounds(k \div 5, r[1], r[2], r[3], r[4], Plus(w0, r[5]), w1, w2, w3))
  BY DEF sha1rnds4, Reverse4
<1> QED BY <1>2, <1>3 DEF next, w0, w1, w2, w3

(* A group spilled, and loaded again, with the array backwards.            *)
LEMMA SpillBackward ==
  ASSUME NEW array \in Words, NEW y \in Words, NEW k \in 0 .. 19
  PROVE  /\ Spilled(TRUE, array, 4 * k, Backward(y, 4 * k)) \in Words
         /\ \A i \in 0 .. 79 :
              Spilled(TRUE, array, 4 * k, Backward(y, 4 * k))[79 - i]
                = IF i >= 4 * k /\ i < 4 * k + 4 THEN y[i] ELSE array[79 - i]
<1> DEFINE start == 76 - 4 * k
           four == Backward(y, 4 * k)
           out == Spilled(TRUE, array, 4 * k, four)
<1>1. out = [i \in 0 .. 79 |-> IF i \in start .. start + 3 THEN four[i - start + 1] ELSE array[i]]
  <2>1. (80 - 4) - 4 * k = start
    OBVIOUS
  <2> QED BY <2>1 DEF Spilled, WindowStart
<1>2. /\ four[1] = y[4 * k + 3] /\ four[2] = y[4 * k + 2] /\ four[3] = y[4 * k + 1]
      /\ four[4] = y[4 * k]
  BY DEF Backward
<1>3. ASSUME NEW i \in start .. start + 3
      PROVE  i \in 0 .. 79 /\ 79 - i \in 0 .. 79 /\ four[i - start + 1] = y[79 - i]
  <2>1. i = start \/ i = start + 1 \/ i = start + 2 \/ i = start + 3
    OBVIOUS
  <2>2. /\ i = start => (i - start) + 1 = 1 /\ 79 - i = 4 * k + 3
        /\ i = start + 1 => (i - start) + 1 = 2 /\ 79 - i = 4 * k + 2
        /\ i = start + 2 => (i - start) + 1 = 3 /\ 79 - i = 4 * k + 1
        /\ i = start + 3 => (i - start) + 1 = 4 /\ 79 - i = 4 * k
    OBVIOUS
  <2>3. four[i - start + 1] = y[79 - i]
    BY <1>2, <2>1, <2>2
  <2> QED BY <2>3
<1> HIDE DEF out, four
<1>4. out \in Words
  <2>1. ASSUME NEW i \in 0 .. 79
        PROVE  (IF i \in start .. start + 3 THEN four[i - start + 1] ELSE array[i]) \in Word
    <3>1. CASE i \in start .. start + 3
      BY <1>3, <3>1 DEF Words
    <3>2. CASE i \notin start .. start + 3
      BY <3>2 DEF Words
    <3> QED BY <3>1, <3>2
  <2> QED BY <1>1, <2>1 DEF Words
<1>5. ASSUME NEW i \in 0 .. 79
      PROVE  out[79 - i] = IF i >= 4 * k /\ i < 4 * k + 4 THEN y[i] ELSE array[79 - i]
  <2>1. 79 - i \in 0 .. 79 /\ 79 - (79 - i) = i
    OBVIOUS
  <2>2. 79 - i \in start .. start + 3 <=> i >= 4 * k /\ i < 4 * k + 4
    OBVIOUS
  <2>3. out[79 - i] = IF 79 - i \in start .. start + 3 THEN four[(79 - i) - start + 1] ELSE array[79 - i]
    BY <1>1, <2>1
  <2>4. 79 - i \in start .. start + 3 => four[(79 - i) - start + 1] = y[i]
    BY <1>3, <2>1
  <2> QED BY <2>2, <2>3, <2>4
<1> QED BY <1>4, <1>5 DEF out, four

LEMMA LoadBackward ==
  ASSUME NEW array, NEW y \in Words, NEW k \in 0 .. 19,
         \A i \in 0 .. 79 : array[79 - i] = y[i]
  PROVE  Loaded(TRUE, array, 4 * k) = Backward(y, 4 * k)
<1>1. /\ array[79 - (4 * k + 3)] = y[4 * k + 3] /\ array[79 - (4 * k + 2)] = y[4 * k + 2]
      /\ array[79 - (4 * k + 1)] = y[4 * k + 1] /\ array[79 - 4 * k] = y[4 * k]
  OBVIOUS
<1>2. /\ 79 - (4 * k + 3) = (80 - 4) - 4 * k /\ 79 - (4 * k + 2) = ((80 - 4) - 4 * k) + 1
      /\ 79 - (4 * k + 1) = ((80 - 4) - 4 * k) + 2 /\ 79 - 4 * k = ((80 - 4) - 4 * k) + 3
  OBVIOUS
<1> QED BY <1>1, <1>2 DEF Loaded, WindowStart, Backward
(* What the registers and memory hold besides, in the terms of the         *)
(* schoolbook.  A stored state as held: reversed, its step's word added.   *)
NiHeld(i) ==
  LET r == StateAt(i)
  IN <<r[4], r[3], r[2], r[1], Plus(Sched[i], r[5])>>

NiCompress ==
  /\ AtGroup(g)
  /\ e_in = <<Zero, Zero, Zero, input.ihv[5]>>
  /\ abcd = Reverse4(StateAt(4 * g))
  /\ g = 0 => StateAt(0) = input.ihv
  /\ g > 0 => Rol(30, Ni!LiveRegister[4]) = StateAt(4 * g)[5]
  /\ DOMAIN v = 0 .. 19
  /\ \A k \in 0 .. 19 : k < g + 4 => v[k] = Backward(Sched, 4 * k)
  /\ w \in Words
  /\ \A i \in 0 .. 79 : w[79 - i] = IF i < 4 * g THEN Sched[i] ELSE input.stale[79 - i]
  /\ g > 15 => at_60 = NiHeld(60)
  /\ g > 16 => at_64 = NiHeld(64)

(* The words and the states are all there, and in memory the words.        *)
Complete == Len(words) >= 80 /\ Len(trail) > 80

NiAfter ==
  /\ Complete
  /\ \A i \in 0 .. 79 : w[79 - i] = Sched[i]
  /\ state = Sum(input.ihv, StateAt(80))
  /\ IF phase = "ensure" THEN at_60 = NiHeld(60) /\ at_64 = NiHeld(64)
     ELSE /\ at_60 = IF input.step = 58 THEN StateAt(58) ELSE StateAt(60)
          /\ at_64 = StateAt(65)

(* In a run of the partner: the first group takes the fifth word from      *)
(* e_in, the others from what the group before held.                       *)
Boundary == IF input.step = 58 THEN 15 ELSE 16

NiRun ==
  /\ g \in 0 .. 20
  /\ partner \in State /\ at \in State
  /\ abcd = Reverse4(partner)
  /\ IF g = (IF phase = "out" THEN Boundary ELSE 0)
     THEN e_in = <<Zero, Zero, Zero, partner[5]>>
     ELSE held[4] \in Word /\ Rol(30, held[4]) = partner[5]
  /\ phase = "out" => g >= Boundary
  /\ phase = "in" => g <= Boundary

NiInv ==
  /\ School
  /\ phase \in {"compress", "ensure", "start", "out", "in", "done"}
  /\ phase = "compress" => g \in 0 .. 20 /\ NiCompress
  /\ phase # "compress" => NiAfter
  /\ phase \in {"out", "in"} => NiRun
  /\ phase = "done" => (attack <=> partner = at)

LEMMA NiNextGroup ==
  ASSUME NEW y \in Words, NEW k \in 0 .. 15, g = k,
         \A j \in 0 .. 19 : j < k + 4 => v[j] = Backward(y, 4 * j),
         \A j \in 16 .. 4 * k + 19 : Recurs(y, j)
  PROVE  Ni!NextGroup = Backward(y, 4 * (k + 4))
<1> DEFINE i == 4 * k + 16
<1>1. /\ i \in 16 .. 76 /\ 4 * (k + 4) = i /\ i + 3 = 4 * k + 19
      /\ 4 * k = i - 16 /\ 4 * (k + 1) = i - 12 /\ 4 * (k + 2) = i - 8 /\ 4 * (k + 3) = i - 4
  OBVIOUS
<1>2. /\ v[k] = Backward(y, i - 16) /\ v[k + 1] = Backward(y, i - 12)
      /\ v[k + 2] = Backward(y, i - 8) /\ v[k + 3] = Backward(y, i - 4)
  BY <1>1
<1>3. CASE k + 4 < 8
  <2>1. Ni!NextGroup = ExpandNi(v[k], v[k + 1], v[k + 2], v[k + 3])
    BY <1>3, NiSameLanes DEF Ni!NextGroup
  <2> HIDE DEF i
  <2>2. \A j \in 16 .. i + 3 : Recurs(y, j)
    BY <1>1
  <2>3. ExpandNi(Backward(y, i - 16), Backward(y, i - 12), Backward(y, i - 8), Backward(y, i - 4))
          = Backward(y, i)
    BY <1>1, <2>2, ExpandNiGroup
  <2> QED BY <1>1, <1>2, <2>1, <2>3
<1>4. CASE ~(k + 4 < 8)
  <2>1. Ni!NextGroup = expand_rol2(v[k - 4], v[k - 3], v[k], v[k + 2], v[k + 3])
    BY <1>4, NiSameLanes DEF Ni!NextGroup
  <2>2. v[k - 4] = Backward(y, i - 32) /\ v[k - 3] = Backward(y, i - 28) /\ i \in 32 .. 76
    <3>1. /\ k - 4 \in 0 .. 19 /\ k - 3 \in 0 .. 19 /\ k - 4 < k + 4 /\ k - 3 < k + 4
          /\ 4 * (k - 4) = i - 32 /\ 4 * (k - 3) = i - 28 /\ i \in 32 .. 76
      BY <1>4
    <3>2. v[k - 4] = Backward(y, 4 * (k - 4)) /\ v[k - 3] = Backward(y, 4 * (k - 3))
      BY <3>1
    <3> QED BY <3>1, <3>2
  <2> HIDE DEF i
  <2>3. \A j \in 16 .. i + 3 : Recurs(y, j)
    BY <1>1
  <2>4. expand_rol2(Backward(y, i - 32), Backward(y, i - 28), Backward(y, i - 16),
                    Backward(y, i - 8), Backward(y, i - 4)) = Backward(y, i)
    BY <2>2, <2>3, ExpandRol2Group
  <2> QED BY <1>1, <1>2, <2>1, <2>2, <2>4
<1> QED BY <1>3, <1>4

(* What a group of the block's compression does, whichever it is.          *)
LEMMA NiGroup ==
  ASSUME NiInv, phase = "compress", NEW k \in 0 .. 19, g = k,
         abcd' = sha1rnds4(abcd, <<Sched[4 * k + 3], Sched[4 * k + 2], Sched[4 * k + 1],
                                   Plus(Sched[4 * k], StateAt(4 * k)[5])>>, k \div 5),
         (Ni!LiveRegister)'[4] = abcd[4],
         w' = Spilled(TRUE, w, 4 * k, v[k]),
         v' = IF k < 16 THEN [v EXCEPT ![k + 4] = Ni!NextGroup] ELSE v,
         at_60' = IF k = 15 THEN NiHeld(60) ELSE at_60,
         at_64' = IF k = 16 THEN NiHeld(64) ELSE at_64,
         g' = k + 1, phase' = phase, input' = input, e_in' = e_in,
         FourStepsOn, FourWordsOn
  PROVE  NiInv'
<1> DEFINE y == Sched'
           r == StateAt(4 * k)
           next == FourFrom(4 * k, r, Sched[4 * k], Sched[4 * k + 1], Sched[4 * k + 2], Sched[4 * k + 3])
<1>1. /\ School /\ AtGroup(k) /\ NiCompress /\ Sched \in Words
  BY SchedWords DEF NiInv, NiCompress
<1>2. /\ School' /\ AtGroup(k + 1)'
      /\ y \in Words
      /\ \A i \in 16 .. 79 : i < Known(k + 1) => Recurs(y, i)
      /\ \A i \in 0 .. Known(k) - 1 : y[i] = Sched[i]
      /\ \A i \in 0 .. 4 * k : StateAt(i)' = StateAt(i)
      /\ StateAt(4 * k + 4)' = next
  BY <1>1, SchoolGroup
<1>k. /\ Known(k) = IF k < 16 THEN 16 + 4 * k ELSE 80
      /\ k < 16 => Known(k + 1) = 4 * k + 20
  BY DEF Known
<1> HIDE DEF y
<1>3. ASSUME NEW j \in 0 .. 19, j < k + 4 PROVE Backward(y, 4 * j) = Backward(Sched, 4 * j)
  <2>1. /\ 4 * j \in 0 .. Known(k) - 1 /\ 4 * j + 1 \in 0 .. Known(k) - 1
        /\ 4 * j + 2 \in 0 .. Known(k) - 1 /\ 4 * j + 3 \in 0 .. Known(k) - 1
    BY <1>k, <1>3
  <2>2. /\ y[4 * j] = Sched[4 * j] /\ y[4 * j + 1] = Sched[4 * j + 1]
        /\ y[4 * j + 2] = Sched[4 * j + 2] /\ y[4 * j + 3] = Sched[4 * j + 3]
    BY <1>2, <2>1
  <2> QED BY <2>2 DEF Backward
<1>4. ASSUME NEW j \in 0 .. 19, j < k + 4 PROVE v[j] = Backward(y, 4 * j)
  BY <1>1, <1>3, <1>4 DEF NiCompress
<1>5. /\ abcd' = Reverse4(next) /\ next \in State /\ next[5] = Rol(30, r[1]) /\ abcd[4] = r[1]
  <2>1. r \in State
    BY <1>1, StateOfGroup
  <2>2. abcd = Reverse4(r)
    BY <1>1 DEF NiCompress
  <2>3. abcd[4] = r[1]
    BY <2>2 DEF Reverse4
  <2> HIDE DEF r
  <2>4. /\ next \in State /\ next[5] = Rol(30, r[1])
        /\ sha1rnds4(Reverse4(r), <<Sched[4 * k + 3], Sched[4 * k + 2], Sched[4 * k + 1],
                                    Plus(Sched[4 * k], r[5])>>, k \div 5) = Reverse4(next)
    BY <1>1, <2>1, NiFourRounds
  <2>5. abcd' = sha1rnds4(abcd, <<Sched[4 * k + 3], Sched[4 * k + 2], Sched[4 * k + 1],
                                  Plus(Sched[4 * k], r[5])>>, k \div 5)
    BY DEF r
  <2> QED BY <2>2, <2>3, <2>4, <2>5
<1>6. AtGroup(g)' /\ e_in' = <<Zero, Zero, Zero, input'.ihv[5]>>
  BY <1>1, <1>2 DEF AtGroup, NiCompress
<1>7. /\ abcd' = Reverse4(StateAt(4 * g)') /\ Rol(30, (Ni!LiveRegister)'[4]) = StateAt(4 * g)'[5]
  <2>1. 4 * g' = 4 * k + 4
    OBVIOUS
  <2>2. StateAt(4 * g)' = StateAt(4 * k + 4)'
    BY <2>1 DEF StateAt
  <2> QED BY <1>2, <1>5, <2>2
<1>8. /\ DOMAIN v' = 0 .. 19
      /\ \A j \in 0 .. 19 : j < g' + 4 => v'[j] = Backward(y, 4 * j)
  <2>1. DOMAIN v = 0 .. 19
    BY <1>1 DEF NiCompress
  <2>2. CASE k < 16
    <3>1. Ni!NextGroup = Backward(y, 4 * (k + 4))
      <4>1. \A j \in 16 .. 4 * k + 19 : Recurs(y, j)
        BY <1>2, <1>k, <2>2
      <4>2. y \in Words /\ k \in 0 .. 15
        BY <1>2, <2>2
      <4>3. \A j \in 0 .. 19 : j < k + 4 => v[j] = Backward(y, 4 * j)
        BY <1>4
      <4> HIDE DEF y
      <4> QED BY <4>1, <4>2, <4>3, NiNextGroup
    <3>2. v' = [v EXCEPT ![k + 4] = Backward(y, 4 * (k + 4))]
      BY <2>2, <3>1
    <3>3. ASSUME NEW j \in 0 .. 19, j < k + 5 PROVE v'[j] = Backward(y, 4 * j)
      <4>1. CASE j = k + 4
        BY <2>1, <3>2, <4>1
      <4>2. CASE j # k + 4
        <5>1. v'[j] = v[j] /\ j < k + 4
          BY <2>1, <3>2, <3>3, <4>2
        <5> QED BY <1>4, <5>1
      <4> QED BY <4>1, <4>2
    <3> QED BY <2>1, <3>2, <3>3
  <2>3. CASE ~(k < 16)
    <3>1. v' = v /\ \A j \in 0 .. 19 : j < k + 4
      BY <2>3
    <3> QED BY <1>4, <2>1, <3>1
  <2> QED BY <2>2, <2>3
<1>9. /\ w' \in Words
      /\ \A i \in 0 .. 79 : w'[79 - i] = IF i < 4 * g' THEN y[i] ELSE input'.stale[79 - i]
  <2>1. w' = Spilled(TRUE, w, 4 * k, Backward(y, 4 * k))
    <3>1. k \in 0 .. 19 /\ k < k + 4
      OBVIOUS
    <3>2. v[k] = Backward(y, 4 * k)
      BY <1>4, <3>1
    <3> QED BY <3>2
  <2>0. w \in Words /\ y \in Words /\ k \in 0 .. 19
    BY <1>1, <1>2 DEF NiCompress
  <2>2. /\ w' \in Words
        /\ \A i \in 0 .. 79 : w'[79 - i] = IF i >= 4 * k /\ i < 4 * k + 4 THEN y[i] ELSE w[79 - i]
    <3> DEFINE out == Spilled(TRUE, w, 4 * k, Backward(y, 4 * k))
    <3>1. /\ out \in Words
          /\ \A i \in 0 .. 79 : out[79 - i] = IF i >= 4 * k /\ i < 4 * k + 4 THEN y[i] ELSE w[79 - i]
      BY <2>0, SpillBackward
    <3> HIDE DEF out
    <3>2. w' = out
      BY <2>1 DEF out
    <3> QED BY <3>1, <3>2
  <2> DEFINE low == 4 * k
  <2>3. low \in Nat /\ 4 * g' = low + 4
    OBVIOUS
  <2>4. \A i \in 0 .. 79 : w'[79 - i] = IF i >= low /\ i < low + 4 THEN y[i] ELSE w[79 - i]
    BY <2>2
  <2>5. \A i \in 0 .. 79 : w[79 - i] = IF i < low THEN Sched[i] ELSE input.stale[79 - i]
    BY <1>1 DEF NiCompress
  <2>6. \A i \in 0 .. 79 : i < low => y[i] = Sched[i]
    BY <1>2, <1>k
  <2> HIDE DEF low
  <2>7. ASSUME NEW i \in 0 .. 79
        PROVE  w'[79 - i] = IF i < low + 4 THEN y[i] ELSE input'.stale[79 - i]
    <3>1. i < low => ~(i >= low /\ i < low + 4) /\ i < low + 4
      BY <2>3
    <3>2. i >= low + 4 => ~(i >= low /\ i < low + 4) /\ ~(i < low + 4) /\ ~(i < low)
      BY <2>3
    <3>3. i < low \/ (i >= low /\ i < low + 4 /\ ~(i < low)) \/ i >= low + 4
      BY <2>3
    <3>4. input'.stale = input.stale
      OBVIOUS
    <3> HIDE DEF y
    <3> QED BY <2>4, <2>5, <2>6, <3>1, <3>2, <3>3, <3>4
  <2> QED BY <2>2, <2>3, <2>7
<1>10. /\ g' > 15 => at_60' = NiHeld(60)'
       /\ g' > 16 => at_64' = NiHeld(64)'
  <2>1. ASSUME NEW i \in {60, 64}, i <= 4 * k PROVE NiHeld(i)' = NiHeld(i)
    <3>1. StateAt(i)' = StateAt(i) /\ y[i] = Sched[i]
      BY <1>2, <1>k, <2>1
    <3> QED BY <3>1 DEF NiHeld, y
  <2>2. /\ k > 15 => at_60 = NiHeld(60)
        /\ k > 16 => at_64 = NiHeld(64)
    BY <1>1 DEF NiCompress
  <2>3. g' > 15 => at_60' = NiHeld(60)'
    BY <2>1, <2>2
  <2>4. g' > 16 => at_64' = NiHeld(64)'
    BY <2>1, <2>2
  <2> QED BY <2>3, <2>4
<1>11. NiCompress'
  <2>1. g' # 0 /\ g' \in 0 .. 20
    OBVIOUS
  <2> QED BY <1>6, <1>7, <1>8, <1>9, <1>10, <2>1 DEF NiCompress, y
<1> QED BY <1>2, <1>11 DEF NiInv

LEMMA NiSameSchool ==
  /\ \A i : Ni!W(i) = W(i) /\ Ni!StateAt(i) = StateAt(i)
  /\ Ni!SchoolStarts <=> SchoolStarts
  /\ \A x, y : Ni!Sum(x, y) = Sum(x, y) /\ Ni!Difference(x, y) = Difference(x, y)
  /\ \A i : Ni!PartnerWord(i) = PartnerWord(i)
  /\ \A i : Ni!PartnerFourOn(i) <=> PartnerFourOn(i)
<1>1. \A i : Ni!W(i) = W(i) /\ Ni!StateAt(i) = StateAt(i)
  BY DEF Ni!W, W, Ni!StateAt, StateAt
<1>2. Ni!SchoolStarts <=> SchoolStarts
  BY DEF Ni!SchoolStarts, SchoolStarts
<1>3. \A x, y : Ni!Sum(x, y) = Sum(x, y) /\ Ni!Difference(x, y) = Difference(x, y)
  BY DEF Ni!Sum, Sum, Ni!Difference, Difference
<1>4. \A i : Ni!PartnerWord(i) = PartnerWord(i)
  BY <1>1 DEF Ni!PartnerWord, PartnerWord
<1>5. \A i : Ni!PartnerFourOn(i) <=> PartnerFourOn(i)
  BY <1>4, NiSame DEF Ni!PartnerFourOn, PartnerFourOn
<1> QED BY <1>1, <1>2, <1>3, <1>4, <1>5

LEMMA NiFirstGroup ==
  ASSUME NiInv, Ni!FirstGroup
  PROVE  NiInv'
<1>1. /\ phase = "compress" /\ g = 0 /\ g' = 1 /\ phase' = phase /\ input' = input
      /\ e_in' = e_in /\ at_60' = at_60 /\ at_64' = at_64
      /\ w' = Ni!Spilled(TRUE, w, 0, v[0])
      /\ e0' = Ni!PlusAll(e_in, v[0]) /\ e1' = abcd
      /\ abcd' = Ni!sha1rnds4(abcd, e0', 0)
      /\ v' = [v EXCEPT ![4] = Ni!NextGroup]
      /\ Ni!FourStepsOn /\ Ni!FourWordsOn
  BY DEF Ni!FirstGroup
<1>2. PICK k \in 0 .. 19 : k = 0
  OBVIOUS
<1>3. NiCompress /\ School
  BY <1>1 DEF NiInv
<1>4. v[k] = Backward(Sched, 4 * k) /\ StateAt(4 * k) = input.ihv
  BY <1>1, <1>2, <1>3 DEF NiCompress
<1>5. e0' = <<Sched[4 * k + 3], Sched[4 * k + 2], Sched[4 * k + 1], Plus(Sched[4 * k], StateAt(4 * k)[5])>>
  <2>1. /\ Sched[4 * k] \in Word /\ Sched[4 * k + 1] \in Word /\ Sched[4 * k + 2] \in Word
        /\ Sched[4 * k + 3] \in Word
    <3>1. Sched \in Words
      BY <1>3, SchedWords
    <3>2. 4 * k \in 0 .. 79 /\ 4 * k + 1 \in 0 .. 79 /\ 4 * k + 2 \in 0 .. 79 /\ 4 * k + 3 \in 0 .. 79
      BY <1>2
    <3> QED BY <3>1, <3>2 DEF Words
  <2>2. input.ihv[5] \in Word
    BY <1>3, InputType, StateParts DEF School
  <2>3. e0' = PlusAll(e_in, v[k]) /\ e_in = <<Zero, Zero, Zero, input.ihv[5]>>
    BY <1>1, <1>2, <1>3, NiSameLanes DEF NiCompress
  <2>4. e0' = <<Plus(Zero, Sched[4 * k + 3]), Plus(Zero, Sched[4 * k + 2]), Plus(Zero, Sched[4 * k + 1]),
                Plus(input.ihv[5], Sched[4 * k])>>
    BY <1>4, <2>3 DEF PlusAll, Lanewise, Backward
  <2> HIDE DEF Sched
  <2>5. /\ Plus(Zero, Sched[4 * k + 3]) = Sched[4 * k + 3]
        /\ Plus(Zero, Sched[4 * k + 2]) = Sched[4 * k + 2]
        /\ Plus(Zero, Sched[4 * k + 1]) = Sched[4 * k + 1]
    BY <2>1, ZeroAssumption
  <2>6. Plus(input.ihv[5], Sched[4 * k]) = Plus(Sched[4 * k], input.ihv[5])
    BY <2>1, <2>2, PlusAssumption
  <2> QED BY <1>4, <2>4, <2>5, <2>6
<1>6. abcd' = sha1rnds4(abcd, <<Sched[4 * k + 3], Sched[4 * k + 2], Sched[4 * k + 1],
                                Plus(Sched[4 * k], StateAt(4 * k)[5])>>, k \div 5)
  <2>1. k \div 5 = 0
    BY <1>2
  <2>2. abcd' = sha1rnds4(abcd, e0', 0)
    BY <1>1, NiSameLanes
  <2> QED BY <1>5, <2>1, <2>2
<1>7. (Ni!LiveRegister)'[4] = abcd[4]
  BY <1>1 DEF Ni!LiveRegister
<1>8. /\ w' = Spilled(TRUE, w, 4 * k, v[k])
      /\ v' = IF k < 16 THEN [v EXCEPT ![k + 4] = Ni!NextGroup] ELSE v
      /\ at_60' = IF k = 15 THEN NiHeld(60) ELSE at_60
      /\ at_64' = IF k = 16 THEN NiHeld(64) ELSE at_64
      /\ g = k /\ g' = k + 1
  <2>1. w' = Spilled(TRUE, w, 4 * k, v[k])
    <3>1. 4 * k = 0 /\ v[k] = v[0]
      BY <1>2
    <3> QED BY <1>1, <3>1, NiSameLanes
  <2>2. k < 16 /\ k # 15 /\ k # 16 /\ k + 4 = 4 /\ g' = k + 1 /\ g = k
    BY <1>1, <1>2
  <2> QED BY <1>1, <2>1, <2>2
<1>9. FourStepsOn /\ FourWordsOn
  BY <1>1, NiSame
<1> QED BY <1>1, <1>6, <1>7, <1>8, <1>9, NiGroup

LEMMA NiRounds ==
  ASSUME NiInv, Ni!Rounds
  PROVE  NiInv'
<1> DEFINE live == Ni!sha1nexte(Ni!LiveRegister, v[g])
<1>1. /\ phase = "compress" /\ g \in 1 .. 19 /\ g' = g + 1 /\ phase' = phase /\ input' = input
      /\ e_in' = e_in
      /\ w' = Ni!Spilled(TRUE, w, 4 * g, v[g])
      /\ e0' = IF g % 2 = 1 THEN abcd ELSE live
      /\ e1' = IF g % 2 = 1 THEN live ELSE abcd
      /\ at_60' = IF g = 15 THEN Ni!AsHeld(abcd, live) ELSE at_60
      /\ at_64' = IF g = 16 THEN Ni!AsHeld(abcd, live) ELSE at_64
      /\ abcd' = Ni!sha1rnds4(abcd, live, Ni!Quarter(g))
      /\ v' = IF g < 16 THEN [v EXCEPT ![g + 4] = Ni!NextGroup] ELSE v
      /\ Ni!FourStepsOn /\ Ni!FourWordsOn
  BY DEF Ni!Rounds
<1> HIDE DEF live
<1>2. PICK k \in 1 .. 19 : k = g
  BY <1>1
<1>3. NiCompress /\ School
  BY <1>1 DEF NiInv
<1>4. /\ v[k] = Backward(Sched, 4 * k) /\ abcd = Reverse4(StateAt(4 * k))
      /\ Rol(30, Ni!LiveRegister[4]) = StateAt(4 * k)[5]
  <2>1. k \in 0 .. 19 /\ k < k + 4 /\ k > 0
    OBVIOUS
  <2> QED BY <1>2, <1>3, <2>1 DEF NiCompress
<1>5. live = <<Sched[4 * k + 3], Sched[4 * k + 2], Sched[4 * k + 1], Plus(Sched[4 * k], StateAt(4 * k)[5])>>
  <2>1. live = sha1nexte(Ni!LiveRegister, v[k])
    BY <1>2, NiSameLanes DEF live
  <2> QED BY <1>4, <2>1 DEF sha1nexte, Backward
<1>6. abcd' = sha1rnds4(abcd, <<Sched[4 * k + 3], Sched[4 * k + 2], Sched[4 * k + 1],
                                Plus(Sched[4 * k], StateAt(4 * k)[5])>>, k \div 5)
  <2>1. Ni!Quarter(g) = k \div 5
    BY <1>2 DEF Ni!Quarter
  <2>2. abcd' = sha1rnds4(abcd, live, k \div 5)
    BY <1>1, <2>1, NiSameLanes
  <2> QED BY <1>5, <2>2
<1>7. (Ni!LiveRegister)'[4] = abcd[4]
  <2>1. (Ni!LiveRegister)' = IF g' % 2 = 1 THEN e1' ELSE e0'
    BY DEF Ni!LiveRegister
  <2>2. g' % 2 = 1 <=> ~(g % 2 = 1)
    BY <1>1
  <2> QED BY <1>1, <2>1, <2>2
<1>8. ASSUME NEW i, i = 4 * k PROVE Ni!AsHeld(abcd, live) = NiHeld(i)
  <2>1. abcd = Reverse4(StateAt(i)) /\ live[4] = Plus(Sched[i], StateAt(i)[5])
    BY <1>4, <1>5, <1>8
  <2> QED BY <2>1 DEF Ni!AsHeld, NiHeld, Reverse4
<1>9. /\ at_60' = IF k = 15 THEN NiHeld(60) ELSE at_60
      /\ at_64' = IF k = 16 THEN NiHeld(64) ELSE at_64
  <2>1. /\ k = 15 => Ni!AsHeld(abcd, live) = NiHeld(60)
        /\ k = 16 => Ni!AsHeld(abcd, live) = NiHeld(64)
    BY <1>8
  <2> QED BY <1>1, <1>2, <2>1
<1>10. /\ w' = Spilled(TRUE, w, 4 * k, v[k])
       /\ v' = IF k < 16 THEN [v EXCEPT ![k + 4] = Ni!NextGroup] ELSE v
       /\ g = k /\ g' = k + 1
  BY <1>1, <1>2, NiSameLanes
<1>11. FourStepsOn /\ FourWordsOn /\ k \in 0 .. 19
  BY <1>1, NiSame
<1> QED BY <1>1, <1>6, <1>7, <1>9, <1>10, <1>11, NiGroup

(* What the histories say once they are complete, and as long as nothing   *)
(* is added to them.                                                       *)
LEMMA CompleteStates ==
  ASSUME School, Complete
  PROVE  /\ Sched \in Words
         /\ \A i \in 0 .. 80 : StateAt(i) \in State
         /\ \A i \in 0 .. 79 : Sched[i] = W(i) /\ StateAt(i + 1) = Step(i, StateAt(i), Sched[i])
<1>1. /\ Sched \in Words /\ Len(words) \in Nat /\ Len(trail) \in Nat
      /\ \A i \in Nat : i < Len(words) => Sched[i] = W(i)
  BY SchedWords
<1>2. Len(words) >= 80 /\ Len(trail) > 80
  BY DEF Complete
<1>3. ASSUME NEW i \in 0 .. 79
      PROVE  /\ Sched[i] = W(i) /\ StateAt(i + 1) = Step(i, StateAt(i), Sched[i])
             /\ StateAt(i) \in State /\ StateAt(i + 1) \in State
  <2>1. i \in Nat /\ i < Len(words) /\ i + 1 < Len(trail)
    BY <1>1, <1>2
  <2> QED BY <1>1, <2>1, StatesOfTrail
<1>4. StateAt(80) \in State
  <2>1. 79 \in 0 .. 79 /\ 79 + 1 = 80
    OBVIOUS
  <2> QED BY <1>3, <2>1
<1>5. ASSUME NEW i \in 0 .. 80 PROVE StateAt(i) \in State
  <2>1. i = 80 \/ i \in 0 .. 79
    OBVIOUS
  <2> QED BY <1>3, <1>4, <2>1
<1> QED BY <1>1, <1>3, <1>5

LEMMA SchoolStays ==
  ASSUME School, input' = input, words' = words, trail' = trail
  PROVE  /\ School' /\ Sched' = Sched
         /\ \A i : StateAt(i)' = StateAt(i)
         /\ Complete => Complete'
BY DEF School, Sched, StateAt, Complete

LEMMA NiFeedForward ==
  ASSUME NiInv, Ni!FeedForward
  PROVE  NiInv'
<1>1. /\ phase = "compress" /\ g = 20 /\ phase' = "ensure"
      /\ e0' = Ni!sha1nexte(Ni!LiveRegister, e_in)
      /\ abcd' = Ni!PlusAll(abcd, Ni!load_abcd(input.ihv))
      /\ state' = Ni!InOrder(abcd', e0'[4])
      /\ input' = input /\ w' = w /\ at_60' = at_60 /\ at_64' = at_64
      /\ words' = words /\ trail' = trail
  BY DEF Ni!FeedForward, Ni!school
<1>2. NiCompress /\ School
  BY <1>1 DEF NiInv
<1> DEFINE r == StateAt(80)
           h == input.ihv
<1>3. Complete
  <2>1. Len(trail) = 4 * 20 + 1 /\ Known(20) <= Len(words)
    BY <1>1, <1>2 DEF NiCompress, AtGroup
  <2>2. Known(20) = 80 /\ Len(words) \in Nat
    BY <1>2, SchedWords DEF Known
  <2> QED BY <2>1, <2>2 DEF Complete
<1>4. r \in State /\ h \in State
  BY <1>2, <1>3, CompleteStates, InputType DEF School
<1>5. abcd = Reverse4(r) /\ Rol(30, Ni!LiveRegister[4]) = r[5] /\ e_in = <<Zero, Zero, Zero, h[5]>>
  <2>1. 4 * g = 80 /\ g > 0
    BY <1>1
  <2> QED BY <1>2, <2>1 DEF NiCompress
<1> HIDE DEF r, h
<1>6. e0'[4] = Plus(h[5], r[5])
  BY <1>1, <1>5, NiSameLanes DEF sha1nexte
<1>7. abcd' = <<Plus(r[4], h[4]), Plus(r[3], h[3]), Plus(r[2], h[2]), Plus(r[1], h[1])>>
  <2>1. abcd' = PlusAll(Reverse4(r), <<h[4], h[3], h[2], h[1]>>)
    BY <1>1, <1>5, NiSameLanes DEF Ni!load_abcd, h
  <2> QED BY <2>1 DEF PlusAll, Lanewise, Reverse4
<1>8. state' = <<Plus(r[1], h[1]), Plus(r[2], h[2]), Plus(r[3], h[3]), Plus(r[4], h[4]), Plus(h[5], r[5])>>
  BY <1>1, <1>6, <1>7 DEF Ni!InOrder
<1>9. /\ Plus(r[1], h[1]) = Plus(h[1], r[1]) /\ Plus(r[2], h[2]) = Plus(h[2], r[2])
      /\ Plus(r[3], h[3]) = Plus(h[3], r[3]) /\ Plus(r[4], h[4]) = Plus(h[4], r[4])
  BY <1>4, StateParts, PlusAssumption
<1>10. state' = Sum(h, r)
  BY <1>8, <1>9 DEF Sum
<1>11. /\ School' /\ Sched' = Sched /\ StateAt(80)' = StateAt(80) /\ Complete'
       /\ NiHeld(60)' = NiHeld(60) /\ NiHeld(64)' = NiHeld(64)
  BY <1>1, <1>2, <1>3, SchoolStays DEF NiHeld
<1>12. state' = Sum(input.ihv, StateAt(80))'
  BY <1>1, <1>10, <1>11 DEF Sum, r, h
<1>13. \A i \in 0 .. 79 : w'[79 - i] = Sched'[i]
  <2>1. \A i \in 0 .. 79 : i < 4 * g
    BY <1>1
  <2> HIDE DEF Sched
  <2> QED BY <1>1, <1>2, <1>11, <2>1 DEF NiCompress
<1>14. at_60' = NiHeld(60)' /\ at_64' = NiHeld(64)'
  BY <1>1, <1>2, <1>11 DEF NiCompress
<1>15. NiAfter'
  BY <1>1, <1>11, <1>12, <1>13, <1>14 DEF NiAfter
<1> QED BY <1>1, <1>11, <1>15 DEF NiInv

(* ensure_states, for either backend: what it makes of the states at 60    *)
(* and 64, when the words in memory are those of the schedule.             *)
LEMMA StatesFrom ==
  ASSUME School, Complete
  PROVE  /\ Unstep(58, Unstep(59, StateAt(60), Sched[59]), Sched[58]) = StateAt(58)
         /\ Step(64, StateAt(64), Sched[64]) = StateAt(65)
<1>1. /\ StateAt(58) \in State /\ StateAt(59) \in State /\ StateAt(64) \in State
      /\ Sched[58] \in Word /\ Sched[59] \in Word /\ Sched[64] \in Word
  BY CompleteStates DEF Words
<1>2. /\ StateAt(58 + 1) = Step(58, StateAt(58), Sched[58])
      /\ StateAt(59 + 1) = Step(59, StateAt(59), Sched[59])
      /\ StateAt(64 + 1) = Step(64, StateAt(64), Sched[64])
  BY CompleteStates
<1>3. /\ Unstep(58, Step(58, StateAt(58), Sched[58]), Sched[58]) = StateAt(58)
      /\ Unstep(59, Step(59, StateAt(59), Sched[59]), Sched[59]) = StateAt(59)
  BY <1>1, StepInverse
<1>4. StateAt(59) = Step(58, StateAt(58), Sched[58]) /\ StateAt(60) = Step(59, StateAt(59), Sched[59])
  BY <1>2
<1>5. 64 + 1 = 65
  OBVIOUS
<1> QED BY <1>2, <1>3, <1>4, <1>5

LEMMA NiEnsureStates ==
  ASSUME NiInv, Ni!EnsureStates
  PROVE  NiInv'
<1> DEFINE s60 == Ni!Unheld(at_60, 60)
           s64 == Ni!Unheld(at_64, 64)
<1>1. /\ phase = "ensure" /\ phase' = "start"
      /\ at_60' = Ni!StatesFrom6064(s60, s64, Ni!Stored).state_58
      /\ at_64' = Ni!StatesFrom6064(s60, s64, Ni!Stored).state_65
      /\ input' = input /\ w' = w /\ state' = state /\ words' = words /\ trail' = trail
  BY DEF Ni!EnsureStates, Ni!compression, Ni!school
<1>2. School /\ NiAfter /\ Complete
  BY <1>1 DEF NiInv, NiAfter
<1>3. \A i \in 0 .. 79 : Ni!Stored[i] = Sched[i]
  BY <1>2 DEF NiAfter, Ni!Stored, Ni!At
<1>4. ASSUME NEW i \in 0 .. 79 PROVE Ni!Unheld(NiHeld(i), i) = StateAt(i)
  <2> DEFINE r == StateAt(i)
             x == Sched[i]
  <2>1. r \in State /\ x \in Word
    BY <1>2, CompleteStates DEF Words
  <2>2. NiHeld(i) = <<r[4], r[3], r[2], r[1], Plus(x, r[5])>>
    BY DEF NiHeld
  <2>3. Ni!Stored[i] = x
    BY <1>3
  <2> HIDE DEF r, x
  <2>4. Ni!Unheld(NiHeld(i), i) = <<r[1], r[2], r[3], r[4], Minus(Plus(x, r[5]), x)>>
    BY <2>2, <2>3 DEF Ni!Unheld, Ni!InOrder
  <2>5. r[5] \in Word /\ r = <<r[1], r[2], r[3], r[4], r[5]>>
    BY <2>1, StateParts
  <2>6. Plus(x, r[5]) = Plus(r[5], x) /\ Minus(Plus(r[5], x), x) = r[5]
    BY <2>1, <2>5, PlusAssumption, WordAssumption
  <2>7. Ni!Unheld(NiHeld(i), i) = r
    BY <2>4, <2>5, <2>6
  <2> QED BY <2>7 DEF r
<1>5. s60 = StateAt(60) /\ s64 = StateAt(64)
  BY <1>1, <1>2, <1>4 DEF NiAfter
<1> HIDE DEF s60, s64
<1>6. /\ at_60' = IF input.step = 58 THEN Unstep(58, Unstep(59, s60, Sched[59]), Sched[58]) ELSE s60
      /\ at_64' = Step(64, s64, Sched[64])
  BY <1>1, <1>3, NiSame DEF Ni!StatesFrom6064
<1>7. /\ at_60' = IF input.step = 58 THEN StateAt(58) ELSE StateAt(60)
      /\ at_64' = StateAt(65)
  BY <1>2, <1>5, <1>6, StatesFrom
<1>8. /\ School' /\ Sched' = Sched /\ Complete' /\ \A i : StateAt(i)' = StateAt(i)
  BY <1>1, <1>2, SchoolStays
<1>9. NiAfter'
  <2>1. \A i \in 0 .. 79 : w'[79 - i] = Sched'[i]
    BY <1>1, <1>2, <1>8 DEF NiAfter
  <2>2. state' = Sum(input.ihv, StateAt(80))'
    BY <1>1, <1>2, <1>8 DEF NiAfter, Sum
  <2> QED BY <1>1, <1>7, <1>8, <2>1, <2>2 DEF NiAfter
<1> QED BY <1>1, <1>8, <1>9 DEF NiInv

(* The partner's words, and the state recompress starts a run from.        *)
PartnerWords == [i \in 0 .. 79 |-> Xor(Sched[i], input.dm[i])]

LEMMA PartnerOver ==
  ASSUME School, Complete
  PROVE  /\ PartnerWords \in Words
         /\ \A i \in 0 .. 79 : PartnerWord(i) = PartnerWords[i] /\ Xor(Sched[i], input.dm[i]) \in Word
<1>1. Sched \in Words /\ input.dm \in Words /\ \A i \in 0 .. 79 : Sched[i] = W(i)
  BY CompleteStates, InputType DEF School
<1> HIDE DEF Sched
<1>2. \A i \in 0 .. 79 : Xor(Sched[i], input.dm[i]) \in Word
  BY <1>1, WordType DEF Words
<1> QED BY <1>1, <1>2 DEF PartnerWords, PartnerWord, Words

(* partner_boundary, over the words in memory.                             *)
AtBoundary(r) ==
  IF input.step = 58
  THEN Step(59, Step(58, r, Xor(Sched[58], input.dm[58])), Xor(Sched[59], input.dm[59]))
  ELSE Unstep(64, r, Xor(Sched[64], input.dm[64]))

LEMMA AtBoundaryType ==
  ASSUME School, Complete, NEW r \in State
  PROVE  AtBoundary(r) \in State
<1>1. /\ Xor(Sched[58], input.dm[58]) \in Word /\ Xor(Sched[59], input.dm[59]) \in Word
      /\ Xor(Sched[64], input.dm[64]) \in Word
  BY PartnerOver
<1> HIDE DEF Sched
<1>2. Step(58, r, Xor(Sched[58], input.dm[58])) \in State
  BY <1>1, StepType
<1>3. Step(59, Step(58, r, Xor(Sched[58], input.dm[58])), Xor(Sched[59], input.dm[59])) \in State
  BY <1>1, <1>2, StepType
<1>4. Unstep(64, r, Xor(Sched[64], input.dm[64])) \in State
  BY <1>1, StepType
<1> QED BY <1>3, <1>4 DEF AtBoundary

LEMMA NiStartRecompress ==
  ASSUME NiInv, Ni!StartRecompress
  PROVE  NiInv'
<1> DEFINE from == IF input.step = 58 THEN at_60 ELSE at_64
<1>1. /\ phase = "start" /\ phase' = "out"
      /\ at' = Ni!BoundaryState(from, Ni!Stored)
      /\ abcd' = Ni!load_abcd(at') /\ e_in' = Ni!Top(at'[5]) /\ partner' = at'
      /\ g' = Ni!BoundaryStep \div 4
      /\ input' = input /\ w' = w /\ state' = state /\ words' = words /\ trail' = trail
      /\ at_60' = at_60 /\ at_64' = at_64
  BY DEF Ni!StartRecompress, Ni!compression, Ni!school
<1>2. School /\ NiAfter /\ Complete
  BY <1>1 DEF NiInv, NiAfter
<1>3. \A i \in 0 .. 79 : Ni!Stored[i] = Sched[i]
  BY <1>2 DEF NiAfter, Ni!Stored, Ni!At
<1>4. from \in State
  <2>1. /\ at_60 = IF input.step = 58 THEN StateAt(58) ELSE StateAt(60)
        /\ at_64 = StateAt(65)
    BY <1>1, <1>2 DEF NiAfter
  <2>2. StateAt(58) \in State /\ StateAt(60) \in State /\ StateAt(65) \in State
    BY <1>2, CompleteStates
  <2> QED BY <2>1, <2>2
<1> HIDE DEF from
<1>5. at' = AtBoundary(from)
  BY <1>1, <1>3, NiSame DEF Ni!BoundaryState, AtBoundary
<1>6. at' \in State
  BY <1>2, <1>4, <1>5, AtBoundaryType
<1>7. g' = Boundary /\ Boundary \in 0 .. 20
  BY <1>1 DEF Ni!BoundaryStep, Boundary
<1>8. /\ School' /\ Sched' = Sched /\ Complete' /\ \A i : StateAt(i)' = StateAt(i)
  BY <1>1, <1>2, SchoolStays
<1>9. NiAfter'
  <2>1. \A i \in 0 .. 79 : w'[79 - i] = Sched'[i]
    BY <1>1, <1>2, <1>8 DEF NiAfter
  <2>2. state' = Sum(input.ihv, StateAt(80))'
    BY <1>1, <1>2, <1>8 DEF NiAfter, Sum
  <2>3. /\ at_60' = IF input'.step = 58 THEN StateAt(58)' ELSE StateAt(60)'
        /\ at_64' = StateAt(65)'
    BY <1>1, <1>2, <1>8 DEF NiAfter
  <2> QED BY <1>1, <1>8, <2>1, <2>2, <2>3 DEF NiAfter
<1>10. NiRun'
  <2>1. abcd' = Reverse4(partner') /\ e_in' = <<Zero, Zero, Zero, partner'[5]>>
    BY <1>1 DEF Ni!load_abcd, Ni!Top, Reverse4
  <2>2. Boundary' = Boundary
    BY <1>1 DEF Boundary
  <2>3. g' \in 0 .. 20 /\ g' >= Boundary'
    BY <1>7, <2>2
  <2>4. g' = IF phase' = "out" THEN Boundary' ELSE 0
    BY <1>1, <1>7, <2>2
  <2> QED BY <1>1, <1>6, <2>1, <2>3, <2>4 DEF NiRun
<1> QED BY <1>1, <1>8, <1>9, <1>10 DEF NiInv

(* What stays as it is through the run of a partner.                       *)
LEMMA NiAfterStays ==
  ASSUME School, NiAfter, phase \in {"out", "in"}, phase' \in {"out", "in", "done"},
         input' = input, w' = w, state' = state, words' = words, trail' = trail,
         at_60' = at_60, at_64' = at_64
  PROVE  School' /\ NiAfter'
<1>1. /\ School' /\ Sched' = Sched /\ Complete' /\ \A i : StateAt(i)' = StateAt(i)
  BY SchoolStays DEF NiAfter
<1>2. \A i \in 0 .. 79 : w'[79 - i] = Sched'[i]
  BY <1>1 DEF NiAfter
<1>3. state' = Sum(input.ihv, StateAt(80))'
  BY <1>1 DEF NiAfter, Sum
<1>4. /\ at_60' = IF input'.step = 58 THEN StateAt(58)' ELSE StateAt(60)'
      /\ at_64' = StateAt(65)'
  BY <1>1 DEF NiAfter
<1> QED BY <1>1, <1>2, <1>3, <1>4 DEF NiAfter

LEMMA NiPartnerGroup ==
  ASSUME NiInv, phase \in {"out", "in"}, NEW k \in 0 .. 19, g = k,
         NEW first, first = IF phase = "out" THEN Boundary ELSE 0,
         Ni!Group(first), phase = "in" => g < Boundary
  PROVE  NiInv'
<1> DEFINE P == PartnerWords
           live == <<P[4 * k + 3], P[4 * k + 2], P[4 * k + 1], Plus(P[4 * k], partner[5])>>
           next == FourFrom(4 * k, partner, P[4 * k], P[4 * k + 1], P[4 * k + 2], P[4 * k + 3])
<1>1. /\ abcd' = Ni!sha1rnds4(abcd, IF g = first THEN Ni!PlusAll(e_in, Ni!PartnerGroup)
                                    ELSE Ni!sha1nexte(held, Ni!PartnerGroup), Ni!Quarter(g))
      /\ held' = abcd /\ g' = g + 1 /\ Ni!PartnerFourOn(4 * g)
      /\ phase' = phase /\ input' = input /\ w' = w /\ state' = state /\ at' = at
      /\ words' = words /\ trail' = trail /\ at_60' = at_60 /\ at_64' = at_64
  BY DEF Ni!Group, Ni!compression, Ni!school
<1>2. School /\ NiAfter /\ Complete /\ NiRun
  BY DEF NiInv, NiAfter
<1>3. /\ P \in Words /\ input.dm \in Words /\ Sched \in Words
      /\ \A i \in 0 .. 79 : PartnerWord(i) = P[i] /\ P[i] = Xor(Sched[i], input.dm[i])
  BY <1>2, PartnerOver, InputType, CompleteStates DEF School, PartnerWords
<1>k. /\ 4 * k \in 0 .. 79 /\ 4 * k + 1 \in 0 .. 79 /\ 4 * k + 2 \in 0 .. 79 /\ 4 * k + 3 \in 0 .. 79
  OBVIOUS
<1> HIDE DEF P
<1>p. /\ P[4 * k] \in Word /\ P[4 * k + 1] \in Word /\ P[4 * k + 2] \in Word /\ P[4 * k + 3] \in Word
  BY <1>3, <1>k DEF Words
<1>4. Ni!PartnerGroup = Backward(P, 4 * k)
  <2>1. Loaded(TRUE, w, 4 * k) = Backward(Sched, 4 * k)
    <3>1. \A i \in 0 .. 79 : w[79 - i] = Sched[i]
      BY <1>2 DEF NiAfter
    <3> HIDE DEF Sched
    <3> QED BY <1>3, <3>1, LoadBackward
  <2>2. Ni!PartnerGroup = XorAll(Backward(Sched, 4 * k), Backward(input.dm, 4 * k))
    BY <2>1, NiSameLanes DEF Ni!PartnerGroup, Ni!Reversed, Backward
  <2>3. /\ P[4 * k] = Xor(Sched[4 * k], input.dm[4 * k])
        /\ P[4 * k + 1] = Xor(Sched[4 * k + 1], input.dm[4 * k + 1])
        /\ P[4 * k + 2] = Xor(Sched[4 * k + 2], input.dm[4 * k + 2])
        /\ P[4 * k + 3] = Xor(Sched[4 * k + 3], input.dm[4 * k + 3])
    BY <1>3, <1>k
  <2> HIDE DEF Sched
  <2> QED BY <2>2, <2>3 DEF XorAll, Lanewise, Backward
<1>5. partner \in State /\ partner[5] \in Word /\ abcd = Reverse4(partner)
  BY <1>2, StateParts DEF NiRun
<1>6. (IF g = first THEN Ni!PlusAll(e_in, Ni!PartnerGroup)
       ELSE Ni!sha1nexte(held, Ni!PartnerGroup)) = live
  <2>1. CASE g = first
    <3>1. e_in = <<Zero, Zero, Zero, partner[5]>>
      BY <1>2, <2>1 DEF NiRun
    <3>2. Ni!PlusAll(e_in, Ni!PartnerGroup)
            = <<Plus(Zero, P[4 * k + 3]), Plus(Zero, P[4 * k + 2]), Plus(Zero, P[4 * k + 1]),
                Plus(partner[5], P[4 * k])>>
      BY <1>4, <3>1, NiSameLanes DEF PlusAll, Lanewise, Backward
    <3>3. /\ Plus(Zero, P[4 * k + 3]) = P[4 * k + 3] /\ Plus(Zero, P[4 * k + 2]) = P[4 * k + 2]
          /\ Plus(Zero, P[4 * k + 1]) = P[4 * k + 1]
      BY <1>p, ZeroAssumption
    <3>4. Plus(partner[5], P[4 * k]) = Plus(P[4 * k], partner[5])
      BY <1>p, <1>5, PlusAssumption
    <3> QED BY <2>1, <3>2, <3>3, <3>4
  <2>2. CASE g # first
    <3>1. Rol(30, held[4]) = partner[5]
      BY <1>2, <2>2 DEF NiRun
    <3> QED BY <1>4, <2>2, <3>1, NiSameLanes DEF sha1nexte, Backward
  <2> QED BY <2>1, <2>2
<1>7. /\ next \in State /\ next[5] = Rol(30, partner[1]) /\ abcd' = Reverse4(next)
  <2>1. Ni!Quarter(g) = k \div 5
    BY DEF Ni!Quarter
  <2>2. abcd' = sha1rnds4(Reverse4(partner), live, k \div 5)
    BY <1>1, <1>5, <1>6, <2>1, NiSameLanes
  <2> QED BY <1>3, <1>5, <2>2, NiFourRounds
<1>8. partner' = next
  <2>1. partner' = FourFrom(4 * k, partner, PartnerWord(4 * k), PartnerWord(4 * k + 1),
                            PartnerWord(4 * k + 2), PartnerWord(4 * k + 3))
    BY <1>1, NiSameSchool DEF PartnerFourOn, FourFrom
  <2>2. /\ PartnerWord(4 * k) = P[4 * k] /\ PartnerWord(4 * k + 1) = P[4 * k + 1]
        /\ PartnerWord(4 * k + 2) = P[4 * k + 2] /\ PartnerWord(4 * k + 3) = P[4 * k + 3]
    BY <1>3, <1>k
  <2> QED BY <2>1, <2>2
<1> HIDE DEF next
<1>9. School' /\ NiAfter'
  BY <1>1, <1>2, NiAfterStays
<1>10. NiRun'
  <2>1. abcd' = Reverse4(partner') /\ partner' \in State /\ at' \in State
    BY <1>1, <1>2, <1>7, <1>8 DEF NiRun
  <2>2. held'[4] = partner[1] /\ partner[1] \in Word
    BY <1>1, <1>5, StateParts DEF Reverse4
  <2>3. held'[4] \in Word /\ Rol(30, held'[4]) = partner'[5]
    BY <1>7, <1>8, <2>2
  <2>4. Boundary' = Boundary /\ Boundary \in 15 .. 16
    BY <1>1 DEF Boundary
  <2>5. phase = "out" => g >= Boundary
    BY <1>2 DEF NiRun
  <2> DEFINE b == Boundary
  <2>6. b \in 15 .. 16 /\ Boundary' = b /\ g' = k + 1 /\ phase' = phase
    BY <1>1, <2>4
  <2>7. /\ phase = "out" => k >= b
        /\ phase = "in" => k < b
    BY <2>5
  <2> HIDE DEF b
  <2>8. /\ g' \in 0 .. 20
        /\ phase' = "out" => g' >= Boundary'
        /\ phase' = "in" => g' <= Boundary'
        /\ g' # (IF phase' = "out" THEN Boundary' ELSE 0)
    BY <2>6, <2>7
  <2> QED BY <2>1, <2>3, <2>8 DEF NiRun
<1> QED BY <1>1, <1>9, <1>10 DEF NiInv

LEMMA NiGroupOut ==
  ASSUME NiInv, Ni!GroupOut
  PROVE  NiInv'
<1>1. phase = "out" /\ g < 20 /\ Ni!Group(Ni!BoundaryStep \div 4)
  BY DEF Ni!GroupOut
<1>2. Ni!BoundaryStep \div 4 = Boundary
  BY DEF Ni!BoundaryStep, Boundary
<1>3. PICK k \in 0 .. 19 : g = k
  BY <1>1 DEF NiInv, NiRun
<1>4. phase \in {"out", "in"} /\ Boundary = (IF phase = "out" THEN Boundary ELSE 0) /\ phase # "in"
  BY <1>1
<1>5. Ni!Group(Boundary)
  BY <1>1, <1>2
<1> QED BY <1>3, <1>4, <1>5, NiPartnerGroup

LEMMA NiGroupIn ==
  ASSUME NiInv, Ni!GroupIn
  PROVE  NiInv'
<1>1. phase = "in" /\ g < Boundary /\ Ni!Group(0)
  BY DEF Ni!GroupIn, Ni!BoundaryStep, Boundary
<1>2. Boundary \in 15 .. 16
  BY DEF Boundary
<1>3. PICK k \in 0 .. 19 : g = k
  BY <1>1, <1>2 DEF NiInv, NiRun
<1>4. phase \in {"out", "in"} /\ 0 = (IF phase = "out" THEN Boundary ELSE 0)
  BY <1>1
<1> QED BY <1>1, <1>3, <1>4, NiPartnerGroup

LEMMA SumType ==
  ASSUME NEW x \in State, NEW y \in State
  PROVE  Sum(x, y) \in State /\ Difference(x, y) \in State
BY StateParts, WordType DEF Sum, Difference, State

(* The output is a state.                                                  *)
LEMMA OutputType ==
  ASSUME School, Complete
  PROVE  Sum(input.ihv, StateAt(80)) \in State
BY CompleteStates, InputType, SumType DEF School

LEMMA NiTurnRound ==
  ASSUME NiInv, Ni!TurnRound
  PROVE  NiInv'
<1> DEFINE p == partner
           o == state
<1>1. /\ phase = "out" /\ g = 20 /\ phase' = "in" /\ g' = 0
      /\ abcd' = Ni!MinusAll(Ni!load_abcd(o), abcd)
      /\ e_in' = Ni!MinusAll(Ni!Top(o[5]), Ni!sha1nexte(held, Ni!Zeros))
      /\ partner' = Ni!Difference(o, p)
      /\ input' = input /\ w' = w /\ state' = state /\ at' = at
      /\ words' = words /\ trail' = trail /\ at_60' = at_60 /\ at_64' = at_64
  BY DEF Ni!TurnRound, Ni!compression, Ni!school
<1>2. School /\ NiAfter /\ NiRun /\ Boundary \in 15 .. 16
  BY <1>1 DEF NiInv, Boundary
<1>3. /\ p \in State /\ abcd = Reverse4(p) /\ at \in State
      /\ Rol(30, held[4]) = p[5]
  BY <1>1, <1>2 DEF NiRun
<1>4. o \in State
  BY <1>2, OutputType DEF NiAfter
<1> HIDE DEF p, o
<1>5. School' /\ NiAfter'
  BY <1>1, <1>2, NiAfterStays DEF o
<1>6. partner' = Difference(o, p) /\ partner' \in State
  BY <1>1, <1>3, <1>4, SumType, NiSameSchool
<1>7. abcd' = Reverse4(partner')
  <2>1. abcd' = MinusAll(<<o[4], o[3], o[2], o[1]>>, Reverse4(p))
    BY <1>1, <1>3, NiSameLanes DEF Ni!load_abcd
  <2> QED BY <1>6, <2>1 DEF MinusAll, Lanewise, Reverse4, Difference
<1>8. e_in' = <<Zero, Zero, Zero, partner'[5]>>
  <2>1. e_in' = MinusAll(<<Zero, Zero, Zero, o[5]>>, <<Zero, Zero, Zero, Plus(Zero, p[5])>>)
    BY <1>1, <1>3, NiSameLanes DEF Ni!Top, Ni!Zeros, sha1nexte
  <2>2. Plus(Zero, p[5]) = p[5]
    BY <1>3, StateParts, ZeroAssumption
  <2>3. Minus(Zero, Zero) = Zero
    <3>1. Zero \in Word /\ Plus(Zero, Zero) = Zero /\ Minus(Plus(Zero, Zero), Zero) = Zero
      BY ZeroAssumption, WordAssumption
    <3> QED BY <3>1
  <2> QED BY <1>6, <2>1, <2>2, <2>3 DEF MinusAll, Lanewise, Difference
<1>9. NiRun'
  BY <1>1, <1>3, <1>6, <1>7, <1>8 DEF NiRun, Boundary
<1> QED BY <1>1, <1>5, <1>9 DEF NiInv

LEMMA NiCompare ==
  ASSUME NiInv, Ni!Compare
  PROVE  NiInv'
<1>1. /\ phase = "in" /\ g = Ni!BoundaryStep \div 4 /\ phase' = "done"
      /\ attack' = (Ni!InOrder(abcd, Ni!sha1nexte(held, Ni!Zeros)[4]) = at)
      /\ input' = input /\ w' = w /\ state' = state /\ at' = at /\ partner' = partner
      /\ words' = words /\ trail' = trail /\ at_60' = at_60 /\ at_64' = at_64
  BY DEF Ni!Compare, Ni!compression, Ni!school
<1>2. School /\ NiAfter /\ NiRun /\ g = Boundary /\ g # 0
  BY <1>1 DEF NiInv, Ni!BoundaryStep, Boundary
<1>3. partner \in State /\ abcd = Reverse4(partner) /\ Rol(30, held[4]) = partner[5]
  BY <1>1, <1>2 DEF NiRun
<1>4. Ni!sha1nexte(held, Ni!Zeros)[4] = partner[5]
  <2>1. Ni!sha1nexte(held, Ni!Zeros)[4] = Plus(Zero, partner[5])
    BY <1>3, NiSameLanes DEF sha1nexte, Ni!Zeros
  <2> QED BY <1>3, <2>1, StateParts, ZeroAssumption
<1>5. Ni!InOrder(abcd, partner[5]) = partner
  <2>1. Ni!InOrder(abcd, partner[5]) = <<partner[1], partner[2], partner[3], partner[4], partner[5]>>
    BY <1>3 DEF Ni!InOrder, Reverse4
  <2> QED BY <1>3, <2>1, StateParts
<1>6. School' /\ NiAfter'
  BY <1>1, <1>2, NiAfterStays
<1> QED BY <1>1, <1>4, <1>5, <1>6 DEF NiInv

LEMMA NiStart ==
  ASSUME Ni!Init
  PROVE  NiInv
<1>1. /\ SchoolStarts /\ phase = "compress" /\ g = 0
      /\ abcd = Ni!load_abcd(input.ihv) /\ e_in = Ni!Top(input.ihv[5])
      /\ v = [k \in 0 .. 19 |-> IF k < 4 THEN Ni!msg(input.m, k) ELSE Ni!Zeros]
      /\ w = input.stale
  BY NiSameSchool DEF Ni!Init
<1>2. School /\ AtGroup(0) /\ StateAt(0) = input.ihv
  BY <1>1, SchoolStart
<1>3. ASSUME NEW k \in 0 .. 19, k < 4 PROVE v[k] = Backward(Sched, 4 * k)
  <2>1. /\ 4 * k \in 0 .. 15 /\ 4 * k + 1 \in 0 .. 15 /\ 4 * k + 2 \in 0 .. 15 /\ 4 * k + 3 \in 0 .. 15
        /\ (4 * k + 1) + 1 = 4 * k + 2 /\ (4 * k + 2) + 1 = 4 * k + 3 /\ (4 * k + 3) + 1 = 4 * k + 4
    BY <1>3
  <2>2. \A i \in 0 .. 15 : Sched[i] = input.m[i + 1]
    BY <1>2, SchedWords
  <2> HIDE DEF Sched
  <2>3. /\ Sched[4 * k] = input.m[4 * k + 1] /\ Sched[4 * k + 1] = input.m[4 * k + 2]
        /\ Sched[4 * k + 2] = input.m[4 * k + 3] /\ Sched[4 * k + 3] = input.m[4 * k + 4]
    BY <2>1, <2>2
  <2>4. v[k] = Ni!msg(input.m, k)
    BY <1>1, <1>3
  <2> QED BY <2>3, <2>4 DEF Ni!msg, Ni!Reversed, Backward
<1>4. w \in Words /\ \A i \in 0 .. 79 : w[79 - i] = input.stale[79 - i] /\ ~(i < 4 * g)
  BY <1>1, <1>2, InputType DEF School
<1>5. abcd = Reverse4(StateAt(4 * g)) /\ e_in = <<Zero, Zero, Zero, input.ihv[5]>> /\ AtGroup(g)
  <2>1. 4 * g = 0
    BY <1>1
  <2> QED BY <1>1, <1>2, <2>1 DEF Ni!load_abcd, Reverse4, Ni!Top
<1>6. NiCompress
  <2>1. \A k \in 0 .. 19 : k < g + 4 => v[k] = Backward(Sched, 4 * k)
    BY <1>1, <1>3
  <2>2. DOMAIN v = 0 .. 19
    BY <1>1
  <2>3. ~(g > 0) /\ ~(g > 15) /\ ~(g > 16)
    BY <1>1
  <2> HIDE DEF Sched
  <2> QED BY <1>2, <1>4, <1>5, <2>1, <2>2, <2>3 DEF NiCompress
<1> QED BY <1>1, <1>2, <1>6 DEF NiInv

LEMMA NiStep ==
  ASSUME NiInv, Ni!Next
  PROVE  NiInv'
BY NiFirstGroup, NiRounds, NiFeedForward, NiEnsureStates, NiStartRecompress, NiGroupOut,
   NiTurnRound, NiGroupIn, NiCompare DEF Ni!Next

(* What the runs check of SHA-NI.                                          *)
LEMMA NiMeets ==
  ASSUME NiInv
  PROVE  /\ Ni!RegistersSpellState /\ Ni!SpilledInStepOrder
         /\ Ni!LeavesDigestAndStates /\ Ni!AnswersForPartner
<1>s. School
  BY DEF NiInv
<1>1. Ni!RegistersSpellState
  <2>1. ASSUME phase = "compress", g > 0
        PROVE  Ni!InOrder(abcd, Rol(30, Ni!LiveRegister[4])) = StateAt(4 * g)
    <3> DEFINE r == StateAt(4 * g)
    <3>1. NiCompress /\ g \in 0 .. 20
      BY <2>1 DEF NiInv
    <3>2. r \in State
      BY <1>s, <3>1, StateOfGroup DEF NiCompress
    <3>3. abcd = Reverse4(r) /\ Rol(30, Ni!LiveRegister[4]) = r[5]
      BY <2>1, <3>1 DEF NiCompress
    <3> HIDE DEF r
    <3>4. Ni!InOrder(abcd, r[5]) = r
      <4>1. Ni!InOrder(abcd, r[5]) = <<r[1], r[2], r[3], r[4], r[5]>>
        BY <3>3 DEF Ni!InOrder, Reverse4
      <4> QED BY <3>2, <4>1, StateParts
    <3> QED BY <3>3, <3>4 DEF r
  <2>2. ASSUME phase \in {"out", "in"}
        PROVE  Ni!InOrder(abcd, IF g = 0 \/ (phase = "out" /\ g = Ni!BoundaryStep \div 4)
                                THEN e_in[4] ELSE Rol(30, held[4])) = partner
    <3>1. NiRun
      BY <2>2 DEF NiInv
    <3>2. Ni!BoundaryStep \div 4 = Boundary /\ Boundary \in 15 .. 16
      BY DEF Ni!BoundaryStep, Boundary
    <3>3. (g = 0 \/ (phase = "out" /\ g = Boundary)) <=> g = (IF phase = "out" THEN Boundary ELSE 0)
      BY <2>2, <3>1, <3>2 DEF NiRun
    <3>4. (IF g = 0 \/ (phase = "out" /\ g = Ni!BoundaryStep \div 4)
           THEN e_in[4] ELSE Rol(30, held[4])) = partner[5]
      BY <3>1, <3>2, <3>3 DEF NiRun
    <3>5. abcd = Reverse4(partner) /\ partner \in State
      BY <3>1 DEF NiRun
    <3>6. Ni!InOrder(abcd, partner[5]) = partner
      <4>1. Ni!InOrder(abcd, partner[5]) = <<partner[1], partner[2], partner[3], partner[4], partner[5]>>
        BY <3>5 DEF Ni!InOrder, Reverse4
      <4> QED BY <3>5, <4>1, StateParts
    <3> QED BY <3>4, <3>6
  <2> QED BY <2>1, <2>2, NiSameSchool DEF Ni!RegistersSpellState
<1>2. Ni!SpilledInStepOrder
  <2>1. CASE phase # "compress"
    <3>1. NiAfter
      BY <2>1 DEF NiInv
    <3>2. \A i \in 0 .. 79 : Sched[i] = W(i)
      BY <1>s, <3>1, CompleteStates DEF NiAfter
    <3>3. \A i \in 0 .. 79 : w[79 - i] = Sched[i]
      BY <3>1 DEF NiAfter
    <3> HIDE DEF Sched
    <3> QED BY <2>1, <3>2, <3>3, NiSameSchool DEF Ni!SpilledInStepOrder, Ni!At
  <2>2. CASE phase = "compress"
    <3>1. NiCompress /\ g \in 0 .. 20
      BY <2>2 DEF NiInv
    <3>2. 4 * g <= Len(words)
      <4>1. Known(g) <= Len(words)
        BY <3>1 DEF NiCompress, AtGroup
      <4>2. 4 * g <= Known(g) /\ Known(g) \in Nat
        BY <3>1 DEF Known
      <4>3. Len(words) \in Nat
        BY <1>s, SchedWords
      <4> QED BY <3>1, <4>1, <4>2, <4>3
    <3>3. ASSUME NEW i \in 0 .. 79, i < 4 * g PROVE Sched[i] = W(i)
      <4>1. Len(words) \in Nat
        BY <1>s, SchedWords
      <4>2. i \in Nat /\ i < Len(words)
        BY <3>1, <3>2, <3>3, <4>1
      <4> QED BY <1>s, <4>2, SchedWords
    <3>4. \A i \in 0 .. 79 : w[79 - i] = IF i < 4 * g THEN Sched[i] ELSE input.stale[79 - i]
      BY <3>1 DEF NiCompress
    <3> HIDE DEF Sched
    <3> QED BY <2>2, <3>3, <3>4, NiSameSchool DEF Ni!SpilledInStepOrder, Ni!At
  <2> QED BY <2>1, <2>2
<1>3. Ni!LeavesDigestAndStates
  <2>1. phase # "compress" => NiAfter
    BY DEF NiInv
  <2> QED BY <2>1, NiSameSchool DEF Ni!LeavesDigestAndStates, NiAfter
<1>4. Ni!AnswersForPartner
  BY DEF NiInv, Ni!AnswersForPartner
<1> QED BY <1>1, <1>2, <1>3, <1>4
-----------------------------------------------------------------------------
(* ARMv8.                                                                  *)
LEMMA ArmSame ==
  /\ \A i, r, x : Arm!Step(i, r, x) = Step(i, r, x) /\ Arm!Unstep(i, r, x) = Unstep(i, r, x)
  /\ Arm!FourWordsOn <=> FourWordsOn
  /\ Arm!FourStepsOn <=> FourStepsOn
  /\ \A x, y : /\ Arm!PlusAll(x, y) = PlusAll(x, y) /\ Arm!MinusAll(x, y) = MinusAll(x, y)
               /\ Arm!XorAll(x, y) = XorAll(x, y)
               /\ Arm!vsha1su1(x, y) = vsha1su1(x, y)
  /\ \A x, y, z : Arm!vsha1su0(x, y, z) = vsha1su0(x, y, z)
  /\ \A x, y, z, q : Arm!vsha1(x, y, z, q) = vsha1(x, y, z, q)
  /\ \A array, i, x : Arm!Spilled(FALSE, array, i, x) = Spilled(FALSE, array, i, x)
  /\ \A array, i : Arm!Loaded(FALSE, array, i) = Loaded(FALSE, array, i)
<1>1. \A q, a, b, c, d, x : Arm!Added(q, a, b, c, d, x) = Added(q, a, b, c, d, x)
  BY DEF Arm!Added, Added, Arm!Term, Term, Arm!ch, ch, Arm!parity, parity, Arm!maj, maj
<1>2. \A i, r, x : Arm!Step(i, r, x) = Step(i, r, x) /\ Arm!Unstep(i, r, x) = Unstep(i, r, x)
  BY <1>1 DEF Arm!Step, Step, Arm!Unstep, Unstep
<1>3. Arm!FourWordsOn <=> FourWordsOn
  <2>1. \A ws : Arm!OneWordOn(ws) = OneWordOn(ws)
    BY DEF Arm!OneWordOn, OneWordOn
  <2> QED BY <2>1 DEF Arm!FourWordsOn, FourWordsOn
<1>4. Arm!FourStepsOn <=> FourStepsOn
  <2>1. \A tr : Arm!OneStepOn(tr) = OneStepOn(tr)
    BY <1>2 DEF Arm!OneStepOn, OneStepOn
  <2> QED BY <2>1 DEF Arm!FourStepsOn, FourStepsOn
<1>5. \A x, y : /\ Arm!PlusAll(x, y) = PlusAll(x, y) /\ Arm!MinusAll(x, y) = MinusAll(x, y)
                /\ Arm!XorAll(x, y) = XorAll(x, y)
                /\ Arm!vsha1su1(x, y) = vsha1su1(x, y)
  BY DEF Arm!PlusAll, PlusAll, Arm!MinusAll, MinusAll, Arm!XorAll, XorAll, Arm!Lanewise, Lanewise,
         Arm!vsha1su1, vsha1su1
<1>6. \A x, y, z : Arm!vsha1su0(x, y, z) = vsha1su0(x, y, z)
  BY <1>5 DEF Arm!vsha1su0, vsha1su0
<1>7. \A x, y, z, q : Arm!vsha1(x, y, z, q) = vsha1(x, y, z, q)
  <2>1. \A q, a, b, c, d, x, w1, w2, w3 :
          Arm!FourRounds(q, a, b, c, d, x, w1, w2, w3) = FourRounds(q, a, b, c, d, x, w1, w2, w3)
    BY <1>1, <1>2 DEF Arm!FourRounds, FourRounds
  <2> QED BY <2>1 DEF Arm!vsha1, vsha1
<1>8. \A array, i, x : Arm!Spilled(FALSE, array, i, x) = Spilled(FALSE, array, i, x)
  BY DEF Arm!Spilled, Spilled, Arm!WindowStart, WindowStart
<1>9. \A array, i : Arm!Loaded(FALSE, array, i) = Loaded(FALSE, array, i)
  BY DEF Arm!Loaded, Loaded, Arm!WindowStart, WindowStart
<1> QED BY <1>2, <1>3, <1>4, <1>5, <1>6, <1>7, <1>8, <1>9

LEMMA ArmSameSchool ==
  /\ \A i : Arm!W(i) = W(i) /\ Arm!StateAt(i) = StateAt(i)
  /\ Arm!SchoolStarts <=> SchoolStarts
  /\ \A x, y : Arm!Sum(x, y) = Sum(x, y) /\ Arm!Difference(x, y) = Difference(x, y)
  /\ \A i : Arm!PartnerWord(i) = PartnerWord(i)
  /\ \A i : Arm!PartnerFourOn(i) <=> PartnerFourOn(i)
<1>1. \A i : Arm!W(i) = W(i) /\ Arm!StateAt(i) = StateAt(i)
  BY DEF Arm!W, W, Arm!StateAt, StateAt
<1>2. Arm!SchoolStarts <=> SchoolStarts
  BY DEF Arm!SchoolStarts, SchoolStarts
<1>3. \A x, y : Arm!Sum(x, y) = Sum(x, y) /\ Arm!Difference(x, y) = Difference(x, y)
  BY DEF Arm!Sum, Sum, Arm!Difference, Difference
<1>4. \A i : Arm!PartnerWord(i) = PartnerWord(i)
  BY <1>1 DEF Arm!PartnerWord, PartnerWord
<1>5. \A i : Arm!PartnerFourOn(i) <=> PartnerFourOn(i)
  BY <1>4, ArmSame DEF Arm!PartnerFourOn, PartnerFourOn
<1> QED BY <1>1, <1>2, <1>3, <1>4, <1>5

(* Group k of the schedule y, and with the constant of its quarter.        *)
ForwardGroup(y, k) == <<y[4 * k], y[4 * k + 1], y[4 * k + 2], y[4 * k + 3]>>
WithConstant(x, k) ==
  LET c == K[k \div 5]
  IN <<Plus(x[1], c), Plus(x[2], c), Plus(x[3], c), Plus(x[4], c)>>

First4(r) == <<r[1], r[2], r[3], r[4]>>

LEMMA ArmSameConstant ==
  \A x, k : Arm!WithConstant(x, k) = WithConstant(x, k)
BY DEF Arm!WithConstant, Arm!Quarter, Arm!PlusAll, Arm!Lanewise, WithConstant

LEMMA ArmFourRounds ==
  ASSUME NEW k \in 0 .. 19, NEW r \in State, NEW y \in Words
  PROVE  LET next == FourFrom(4 * k, r, y[4 * k], y[4 * k + 1], y[4 * k + 2], y[4 * k + 3])
         IN /\ next \in State /\ next[5] = Rol(30, r[1])
            /\ vsha1(First4(r), r[5], WithConstant(ForwardGroup(y, k), k), k \div 5) = First4(next)
<1> DEFINE w0 == y[4 * k]
           w1 == y[4 * k + 1]
           w2 == y[4 * k + 2]
           w3 == y[4 * k + 3]
           c == K[k \div 5]
           next == FourFrom(4 * k, r, w0, w1, w2, w3)
<1>1. w0 \in Word /\ w1 \in Word /\ w2 \in Word /\ w3 \in Word
  BY DEF Words
<1>2. c \in Word
  <2>1. k \div 5 \in 0 .. 3
    BY SMT
  <2> QED BY <2>1, WordType
<1>f. WithConstant(ForwardGroup(y, k), k) = <<Plus(w0, c), Plus(w1, c), Plus(w2, c), Plus(w3, c)>>
  BY DEF WithConstant, ForwardGroup
<1> HIDE DEF w0, w1, w2, w3, c
<1>k. 4 * k \in Nat /\ 4 * k <= 76 /\ (4 * k) % 4 = 0 /\ (4 * k) \div 20 = k \div 5
  BY SMT
<1>3. /\ next \in State /\ next[5] = Rol(30, r[1])
      /\ FourRounds(k \div 5, r[1], r[2], r[3], r[4], Plus(w0, r[5]), w1, w2, w3) = next
  <2> DEFINE i == 4 * k
  <2>1. i \in Nat /\ i <= 76 /\ i % 4 = 0
    BY <1>k
  <2> HIDE DEF i
  <2>2. /\ FourFrom(i, r, w0, w1, w2, w3) \in State
        /\ FourFrom(i, r, w0, w1, w2, w3)[5] = Rol(30, r[1])
        /\ FourRounds(i \div 20, r[1], r[2], r[3], r[4], Plus(w0, r[5]), w1, w2, w3)
             = FourFrom(i, r, w0, w1, w2, w3)
    BY <1>1, <2>1, FourFromParts
  <2> QED BY <1>k, <2>2 DEF i
<1> HIDE DEF next
<1>4. /\ Minus(Plus(w0, c), c) = w0 /\ Minus(Plus(w1, c), c) = w1
      /\ Minus(Plus(w2, c), c) = w2 /\ Minus(Plus(w3, c), c) = w3
  BY <1>1, <1>2, WordAssumption
<1>5. vsha1(First4(r), r[5], <<Plus(w0, c), Plus(w1, c), Plus(w2, c), Plus(w3, c)>>, k \div 5)
        = First4(FourRounds(k \div 5, r[1], r[2], r[3], r[4], Plus(w0, r[5]), w1, w2, w3))
  BY <1>4 DEF vsha1, First4, c
<1> QED BY <1>f, <1>3, <1>5 DEF next, w0, w1, w2, w3

(* A group spilled, and loaded again, with the array forwards.             *)
LEMMA SpillAt ==
  ASSUME NEW array \in Words, NEW y \in Words, NEW start \in 0 .. 76
  PROVE  /\ Spilled(FALSE, array, start, Forward(y, start)) \in Words
         /\ \A i \in 0 .. 79 :
              Spilled(FALSE, array, start, Forward(y, start))[i]
                = IF i >= start /\ i < start + 4 THEN y[i] ELSE array[i]
<1> DEFINE four == Forward(y, start)
<1>0. /\ four[1] = y[start] /\ four[2] = y[start + 1]
      /\ four[3] = y[start + 2] /\ four[4] = y[start + 3]
  BY DEF Forward
<1> HIDE DEF four
<1> DEFINE out == Spilled(FALSE, array, start, four)
<1>1. out = [i \in 0 .. 79 |-> IF i \in start .. start + 3 THEN four[i - start + 1] ELSE array[i]]
  BY DEF Spilled, WindowStart
<1>3. ASSUME NEW i \in start .. start + 3
      PROVE  i \in 0 .. 79 /\ four[i - start + 1] = y[i]
  <2>1. i = start \/ i = start + 1 \/ i = start + 2 \/ i = start + 3
    OBVIOUS
  <2>2. /\ i = start => (i - start) + 1 = 1
        /\ i = start + 1 => (i - start) + 1 = 2
        /\ i = start + 2 => (i - start) + 1 = 3
        /\ i = start + 3 => (i - start) + 1 = 4
    OBVIOUS
  <2>3. four[i - start + 1] = y[i]
    BY <1>0, <2>1, <2>2
  <2> QED BY <2>3
<1> HIDE DEF out
<1>4. out \in Words
  <2>1. ASSUME NEW i \in 0 .. 79
        PROVE  (IF i \in start .. start + 3 THEN four[i - start + 1] ELSE array[i]) \in Word
    <3>1. CASE i \in start .. start + 3
      BY <1>3, <3>1 DEF Words
    <3>2. CASE i \notin start .. start + 3
      BY <3>2 DEF Words
    <3> QED BY <3>1, <3>2
  <2> QED BY <1>1, <2>1 DEF Words
<1>5. ASSUME NEW i \in 0 .. 79
      PROVE  out[i] = IF i >= start /\ i < start + 4 THEN y[i] ELSE array[i]
  <2>1. i \in start .. start + 3 <=> i >= start /\ i < start + 4
    OBVIOUS
  <2>2. out[i] = IF i \in start .. start + 3 THEN four[i - start + 1] ELSE array[i]
    BY <1>1
  <2>3. i \in start .. start + 3 => four[i - start + 1] = y[i]
    BY <1>3
  <2> QED BY <2>1, <2>2, <2>3
<1> QED BY <1>4, <1>5 DEF out, four

LEMMA SpillForward ==
  ASSUME NEW array \in Words, NEW y \in Words, NEW k \in 0 .. 19
  PROVE  /\ Spilled(FALSE, array, 4 * k, ForwardGroup(y, k)) \in Words
         /\ \A i \in 0 .. 79 :
              Spilled(FALSE, array, 4 * k, ForwardGroup(y, k))[i]
                = IF i >= 4 * k /\ i < 4 * k + 4 THEN y[i] ELSE array[i]
<1> DEFINE low == 4 * k
<1>1. low \in 0 .. 76 /\ ForwardGroup(y, k) = Forward(y, low)
  BY DEF ForwardGroup, Forward
<1> HIDE DEF low
<1>2. /\ Spilled(FALSE, array, low, Forward(y, low)) \in Words
      /\ \A i \in 0 .. 79 : Spilled(FALSE, array, low, Forward(y, low))[i]
                             = IF i >= low /\ i < low + 4 THEN y[i] ELSE array[i]
  BY <1>1, SpillAt
<1> QED BY <1>1, <1>2 DEF low

LEMMA LoadForward ==
  ASSUME NEW array, NEW y \in Words, NEW k \in 0 .. 19,
         \A i \in 0 .. 79 : array[i] = y[i]
  PROVE  Loaded(FALSE, array, 4 * k) = ForwardGroup(y, k)
<1>1. /\ array[4 * k] = y[4 * k] /\ array[4 * k + 1] = y[4 * k + 1]
      /\ array[4 * k + 2] = y[4 * k + 2] /\ array[4 * k + 3] = y[4 * k + 3]
  OBVIOUS
<1> QED BY <1>1 DEF Loaded, WindowStart, ForwardGroup

(* Before group k, msg has the groups k to k + 2, and in the fourth        *)
(* register the group after them, as far as vsha1su0 takes it.             *)
ArmMessage(m, k, y) ==
  /\ DOMAIN m = 0 .. 3
  /\ k <= 17 => /\ m[k % 4] = ForwardGroup(y, k)
                /\ m[(k + 1) % 4] = ForwardGroup(y, k + 1)
                /\ m[(k + 2) % 4] = ForwardGroup(y, k + 2)
  /\ k = 0 => m[(k + 3) % 4] = ForwardGroup(y, k + 3)
  /\ k \in 1 .. 16 =>
       m[(k + 3) % 4] = vsha1su0(ForwardGroup(y, k - 1), ForwardGroup(y, k), ForwardGroup(y, k + 1))

LEMMA TurnsOfFour ==
  ASSUME NEW k \in Nat
  PROVE  /\ k % 4 \in 0 .. 3 /\ (k + 1) % 4 \in 0 .. 3 /\ (k + 2) % 4 \in 0 .. 3 /\ (k + 3) % 4 \in 0 .. 3
         /\ (k + 1) % 4 # k % 4 /\ (k + 2) % 4 # k % 4 /\ (k + 3) % 4 # k % 4
         /\ (k + 2) % 4 # (k + 1) % 4 /\ (k + 3) % 4 # (k + 1) % 4 /\ (k + 3) % 4 # (k + 2) % 4
         /\ (k + 4) % 4 = k % 4
BY SMT

(* vsha1su1 completes what vsha1su0 began.                                 *)
LEMMA ArmCompletes ==
  ASSUME NEW y \in Words, NEW k \in 1 .. 16, \A j \in 16 .. 4 * k + 15 : Recurs(y, j)
  PROVE  vsha1su1(vsha1su0(ForwardGroup(y, k - 1), ForwardGroup(y, k), ForwardGroup(y, k + 1)),
                  ForwardGroup(y, k + 2))
           = ForwardGroup(y, k + 3)
<1> DEFINE i == 4 * k + 12
<1>1. /\ i \in 16 .. 76 /\ i + 3 = 4 * k + 15
      /\ 4 * (k - 1) = i - 16 /\ 4 * k = i - 12 /\ 4 * (k + 1) = i - 8 /\ 4 * (k + 2) = i - 4
      /\ 4 * (k + 3) = i
  OBVIOUS
<1> HIDE DEF i
<1>2. /\ ForwardGroup(y, k - 1) = Forward(y, i - 16) /\ ForwardGroup(y, k) = Forward(y, i - 12)
      /\ ForwardGroup(y, k + 1) = Forward(y, i - 8) /\ ForwardGroup(y, k + 2) = Forward(y, i - 4)
      /\ ForwardGroup(y, k + 3) = Forward(y, i)
  <2>1. /\ (i - 16) + 1 = i - 15 /\ (i - 16) + 2 = i - 14 /\ (i - 16) + 3 = i - 13
        /\ (i - 12) + 1 = i - 11 /\ (i - 8) + 1 = i - 7 /\ (i - 4) + 1 = i - 3
    BY <1>1
  <2>2. \A x : ForwardGroup(y, x) = Forward(y, 4 * x)
    BY DEF ForwardGroup, Forward
  <2> QED BY <1>1, <2>2
<1>3. \A j \in 16 .. i + 3 : Recurs(y, j)
  BY <1>1
<1> QED BY <1>1, <1>2, <1>3, Su0Su1Group

(* Completed and Begun, of the module.                                     *)
CompletedOf(m, k) ==
  IF k \in 1 .. 16
  THEN [m EXCEPT ![(k + 3) % 4] = vsha1su1(m[(k + 3) % 4], m[(k + 2) % 4])]
  ELSE m

BegunOf(regs, k) ==
  IF k < 16
  THEN [regs EXCEPT ![k % 4] = vsha1su0(regs[k % 4], regs[(k + 1) % 4], regs[(k + 2) % 4])]
  ELSE regs

LEMMA ArmMessages ==
  ASSUME NEW y \in Words, NEW k \in 0 .. 19, NEW m, ArmMessage(m, k, y),
         k \in 1 .. 16 => \A j \in 16 .. 4 * k + 15 : Recurs(y, j)
  PROVE  /\ k \in 1 .. 16 => CompletedOf(m, k)[(k + 3) % 4] = ForwardGroup(y, k + 3)
         /\ ArmMessage(BegunOf(CompletedOf(m, k), k), k + 1, y)
<1> DEFINE regs == CompletedOf(m, k)
           out == BegunOf(regs, k)
           a0 == k % 4
           a1 == (k + 1) % 4
           a2 == (k + 2) % 4
           a3 == (k + 3) % 4
           g0 == ForwardGroup(y, k)
           g1 == ForwardGroup(y, k + 1)
           g2 == ForwardGroup(y, k + 2)
           g3 == ForwardGroup(y, k + 3)
<1>1. /\ a0 \in 0 .. 3 /\ a1 \in 0 .. 3 /\ a2 \in 0 .. 3 /\ a3 \in 0 .. 3
      /\ a1 # a0 /\ a2 # a0 /\ a3 # a0 /\ a2 # a1 /\ a3 # a1 /\ a3 # a2
  BY TurnsOfFour
<1>n. /\ (k + 1) % 4 = a1 /\ ((k + 1) + 1) % 4 = a2 /\ ((k + 1) + 2) % 4 = a3
      /\ ((k + 1) + 3) % 4 = a0 /\ (k + 1) - 1 = k /\ (k + 1) + 1 = k + 2 /\ (k + 1) + 2 = k + 3
  BY TurnsOfFour
<1>2. /\ DOMAIN m = 0 .. 3
      /\ k <= 17 => m[a0] = g0 /\ m[a1] = g1 /\ m[a2] = g2
      /\ k = 0 => m[a3] = g3
      /\ k \in 1 .. 16 => m[a3] = vsha1su0(ForwardGroup(y, k - 1), g0, g1)
  BY DEF ArmMessage
<1>3. k \in 1 .. 16 => vsha1su1(m[a3], m[a2]) = g3
  BY <1>2, ArmCompletes
<1>4. /\ k \in 1 .. 16 => regs = [m EXCEPT ![a3] = vsha1su1(m[a3], m[a2])]
      /\ ~(k \in 1 .. 16) => regs = m
      /\ k < 16 => out = [regs EXCEPT ![a0] = vsha1su0(regs[a0], regs[a1], regs[a2])]
      /\ ~(k < 16) => out = regs
  BY DEF CompletedOf, BegunOf
<1>5. ArmMessage(out, k + 1, y) <=>
        /\ DOMAIN out = 0 .. 3
        /\ k + 1 <= 17 => /\ out[a1] = g1 /\ out[a2] = g2 /\ out[a3] = g3
        /\ k + 1 \in 1 .. 16 => out[a0] = vsha1su0(g0, g1, g2)
  BY <1>n DEF ArmMessage
<1> HIDE DEF a0, a1, a2, a3, g0, g1, g2, g3, regs, out
<1>6. /\ DOMAIN regs = 0 .. 3
      /\ k <= 16 => regs[a0] = g0 /\ regs[a1] = g1 /\ regs[a2] = g2 /\ regs[a3] = g3
  <2>1. CASE k = 0
    BY <1>2, <1>4, <2>1
  <2>2. CASE k \in 1 .. 16
    <3>1. regs = [m EXCEPT ![a3] = g3]
      BY <1>3, <1>4, <2>2
    <3>2. m[a0] = g0 /\ m[a1] = g1 /\ m[a2] = g2
      BY <1>2, <2>2
    <3> QED BY <1>1, <1>2, <3>1, <3>2
  <2>3. CASE k > 16
    <3>1. ~(k \in 1 .. 16) /\ ~(k <= 16)
      BY <2>3
    <3> QED BY <1>2, <1>4, <3>1
  <2> QED BY <2>1, <2>2, <2>3
<1>7. /\ DOMAIN out = 0 .. 3
      /\ k <= 16 => out[a1] = g1 /\ out[a2] = g2 /\ out[a3] = g3
      /\ k < 16 => out[a0] = vsha1su0(g0, g1, g2)
  <2>1. CASE k < 16
    <3>1. regs[a0] = g0 /\ regs[a1] = g1 /\ regs[a2] = g2 /\ regs[a3] = g3
      BY <1>6, <2>1
    <3>2. out = [regs EXCEPT ![a0] = vsha1su0(g0, g1, g2)]
      BY <1>4, <2>1, <3>1
    <3> QED BY <1>1, <1>6, <3>1, <3>2
  <2>2. CASE ~(k < 16)
    BY <1>4, <1>6, <2>2
  <2> QED BY <2>1, <2>2
<1>8. k \in 1 .. 16 => regs[a3] = g3
  BY <1>6
<1>9. /\ k + 1 <= 17 <=> k <= 16
      /\ k + 1 \in 1 .. 16 <=> k < 16
  OBVIOUS
<1>10. ArmMessage(out, k + 1, y)
  BY <1>5, <1>7, <1>9
<1> QED BY <1>8, <1>10 DEF a3, g3, regs, out

(* Where the spill has got to before group k.                              *)
SpilledTo(k) == IF k = 0 THEN 16 ELSE 4 * k + 12

ArmCompress ==
  /\ AtGroup(g)
  /\ abcd = First4(StateAt(4 * g))
  /\ e[g % 2] = StateAt(4 * g)[5]
  /\ DOMAIN tmp = 0 .. 1
  /\ g <= 19 => tmp[g % 2] = WithConstant(ForwardGroup(Sched, g), g)
  /\ g <= 18 => tmp[(g + 1) % 2] = WithConstant(ForwardGroup(Sched, g + 1), g + 1)
  /\ ArmMessage(msg, g, Sched)
  /\ w \in Words
  /\ \A i \in 0 .. 79 : w[i] = IF i < SpilledTo(g) THEN Sched[i] ELSE input.stale[i]
  /\ g > 15 => at_60 = StateAt(60)
  /\ g > 16 => at_64 = StateAt(64)

ArmAfter ==
  /\ Complete
  /\ \A i \in 0 .. 79 : w[i] = Sched[i]
  /\ state = Sum(input.ihv, StateAt(80))
  /\ IF phase = "ensure" THEN at_60 = StateAt(60) /\ at_64 = StateAt(64)
     ELSE /\ at_60 = IF input.step = 58 THEN StateAt(58) ELSE StateAt(60)
          /\ at_64 = StateAt(65)

ArmRun ==
  /\ g \in 0 .. 20
  /\ partner \in State /\ at \in State
  /\ abcd = First4(partner)
  /\ e[0] = partner[5]
  /\ phase = "out" => g >= Boundary
  /\ phase = "in" => g <= Boundary

ArmInv ==
  /\ School
  /\ DOMAIN e = 0 .. 1
  /\ phase \in {"compress", "ensure", "start", "out", "in", "done"}
  /\ phase = "compress" => g \in 0 .. 20 /\ ArmCompress
  /\ phase # "compress" => ArmAfter
  /\ phase \in {"out", "in"} => ArmRun
  /\ phase = "done" => (attack <=> partner = at)

(* The words of a group already known are the same when more are.          *)
LEMMA GroupKept ==
  ASSUME NEW x, NEW y, NEW n \in Nat, \A i \in 0 .. n - 1 : y[i] = x[i],
         NEW k \in Nat, 4 * k + 3 < n
  PROVE  ForwardGroup(y, k) = ForwardGroup(x, k)
<1>1. /\ 4 * k \in 0 .. n - 1 /\ 4 * k + 1 \in 0 .. n - 1 /\ 4 * k + 2 \in 0 .. n - 1
      /\ 4 * k + 3 \in 0 .. n - 1
  OBVIOUS
<1>2. /\ y[4 * k] = x[4 * k] /\ y[4 * k + 1] = x[4 * k + 1] /\ y[4 * k + 2] = x[4 * k + 2]
      /\ y[4 * k + 3] = x[4 * k + 3]
  BY <1>1
<1> QED BY <1>2 DEF ForwardGroup

LEMMA ArmRounds ==
  ASSUME ArmInv, Arm!Rounds
  PROVE  ArmInv'
<1> DEFINE regs == Arm!Completed(g)
           y == Sched'
<1>1. /\ phase = "compress" /\ g < 20 /\ g' = g + 1 /\ phase' = phase /\ input' = input
      /\ at_60' = IF g = 15 THEN Arm!WithFifth(abcd, e[1]) ELSE at_60
      /\ at_64' = IF g = 16 THEN Arm!WithFifth(abcd, e[0]) ELSE at_64
      /\ e' = [e EXCEPT ![(g + 1) % 2] = Arm!vsha1h(abcd[1])]
      /\ abcd' = Arm!vsha1(abcd, e[g % 2], tmp[g % 2], Arm!Quarter(g))
      /\ tmp' = IF g < 18 THEN [tmp EXCEPT ![g % 2] = Arm!WithConstant(msg[(g + 2) % 4], g + 2)]
                ELSE tmp
      /\ w' = IF g \in 1 .. 16 THEN Arm!Spilled(FALSE, w, 4 * (g + 3), regs[(g + 3) % 4]) ELSE w
      /\ msg' = Arm!Begun(regs, g)
      /\ Arm!FourStepsOn /\ Arm!FourWordsOn
  BY DEF Arm!Rounds
<1> HIDE DEF regs
<1>2. ArmCompress /\ School /\ g \in 0 .. 20 /\ DOMAIN e = 0 .. 1
  BY <1>1 DEF ArmInv
<1>3. PICK k \in 0 .. 19 : k = g
  BY <1>1, <1>2
<1>c. /\ AtGroup(k)
      /\ abcd = First4(StateAt(4 * k))
      /\ e[k % 2] = StateAt(4 * k)[5]
      /\ DOMAIN tmp = 0 .. 1
      /\ tmp[k % 2] = WithConstant(ForwardGroup(Sched, k), k)
      /\ k <= 18 => tmp[(k + 1) % 2] = WithConstant(ForwardGroup(Sched, k + 1), k + 1)
      /\ ArmMessage(msg, k, Sched)
      /\ w \in Words
      /\ \A i \in 0 .. 79 : w[i] = IF i < SpilledTo(k) THEN Sched[i] ELSE input.stale[i]
      /\ k > 15 => at_60 = StateAt(60)
      /\ k > 16 => at_64 = StateAt(64)
  BY <1>2, <1>3 DEF ArmCompress
<1>4. /\ School' /\ AtGroup(k + 1)' /\ y \in Words
      /\ \A i \in 0 .. Known(k) - 1 : y[i] = Sched[i]
      /\ \A i \in 0 .. 4 * k : StateAt(i)' = StateAt(i)
      /\ StateAt(4 * k + 4)' = FourFrom(4 * k, StateAt(4 * k), Sched[4 * k], Sched[4 * k + 1],
                                        Sched[4 * k + 2], Sched[4 * k + 3])
  BY <1>1, <1>2, <1>c, ArmSame, SchoolGroup
<1>s. Sched \in Words /\ StateAt(4 * k) \in State
  <2>1. Sched \in Words
    BY <1>2, SchedWords
  <2>2. k \in 0 .. 20
    OBVIOUS
  <2> QED BY <1>2, <1>c, <2>1, <2>2, StateOfGroup
<1>k. /\ Known(k) \in Nat /\ Known(k) <= 80
      /\ k < 16 => Known(k) = 16 + 4 * k
      /\ k >= 16 => Known(k) = 80
  BY KnownBounds
<1> HIDE DEF y
<1>5. ASSUME NEW j \in 0 .. 19, j <= k + 3 PROVE ForwardGroup(y, j) = ForwardGroup(Sched, j)
  <2> DEFINE n == Known(k)
  <2>1. n \in Nat /\ \A i \in 0 .. n - 1 : y[i] = Sched[i]
    BY <1>4, <1>k
  <2>2. 4 * j + 3 < n
    BY <1>k, <1>5
  <2> HIDE DEF n, Sched
  <2> QED BY <2>1, <2>2, GroupKept
<1>6. /\ abcd' = First4(StateAt(4 * k + 4)') /\ vsha1h(abcd[1]) = StateAt(4 * k + 4)'[5]
  <2> DEFINE r == StateAt(4 * k)
             next == FourFrom(4 * k, r, Sched[4 * k], Sched[4 * k + 1], Sched[4 * k + 2], Sched[4 * k + 3])
  <2>1. /\ abcd = First4(r) /\ r \in State /\ abcd[1] = r[1]
    BY <1>c, <1>s DEF First4
  <2>2. abcd' = vsha1(First4(r), r[5], WithConstant(ForwardGroup(Sched, k), k), k \div 5)
    BY <1>1, <1>3, <1>c, ArmSame DEF Arm!Quarter
  <2> HIDE DEF r
  <2>3. /\ next \in State /\ next[5] = Rol(30, r[1])
        /\ vsha1(First4(r), r[5], WithConstant(ForwardGroup(Sched, k), k), k \div 5) = First4(next)
    BY <1>s, <2>1, ArmFourRounds
  <2>4. StateAt(4 * k + 4)' = next
    BY <1>4 DEF r
  <2> QED BY <2>1, <2>2, <2>3, <2>4 DEF vsha1h
<1>7. /\ 4 * g' = 4 * k + 4 /\ g' = k + 1
      /\ StateAt(4 * g)' = StateAt(4 * k + 4)'
  <2>1. 4 * g' = 4 * k + 4 /\ g' = k + 1
    BY <1>1, <1>3
  <2> QED BY <2>1 DEF StateAt
<1>8. /\ DOMAIN e' = 0 .. 1
      /\ e'[g' % 2] = StateAt(4 * g)'[5]
      /\ abcd' = First4(StateAt(4 * g)')
  <2>1. (k + 1) % 2 \in 0 .. 1
    BY SMT
  <2>2. e' = [e EXCEPT ![(k + 1) % 2] = vsha1h(abcd[1])]
    BY <1>1, <1>3 DEF Arm!vsha1h, vsha1h
  <2> QED BY <1>2, <1>6, <1>7, <2>1, <2>2
<1>9. /\ DOMAIN tmp' = 0 .. 1
      /\ k <= 18 => tmp'[(k + 1) % 2] = WithConstant(ForwardGroup(y, k + 1), k + 1)
      /\ k <= 17 => tmp'[k % 2] = WithConstant(ForwardGroup(y, k + 2), k + 2)
  <2>1. k % 2 \in 0 .. 1 /\ (k + 1) % 2 \in 0 .. 1 /\ k % 2 # (k + 1) % 2
    BY SMT
  <2>2. k <= 18 => ForwardGroup(y, k + 1) = ForwardGroup(Sched, k + 1)
    BY <1>5
  <2>3. k <= 17 => ForwardGroup(y, k + 2) = ForwardGroup(Sched, k + 2)
    BY <1>5
  <2>4. CASE k < 18
    <3>1. msg[(k + 2) % 4] = ForwardGroup(Sched, k + 2)
      BY <1>c, <2>4 DEF ArmMessage
    <3>2. tmp' = [tmp EXCEPT ![k % 2] = WithConstant(ForwardGroup(Sched, k + 2), k + 2)]
      BY <1>1, <1>3, <2>4, <3>1, ArmSameConstant
    <3> QED BY <1>c, <2>1, <2>2, <2>3, <2>4, <3>2
  <2>5. CASE ~(k < 18)
    <3>1. tmp' = tmp /\ ~(k <= 17)
      BY <1>1, <1>3, <2>5
    <3> QED BY <1>c, <2>2, <3>1
  <2> QED BY <2>4, <2>5
<1>10. /\ k \in 1 .. 16 => regs[(k + 3) % 4] = ForwardGroup(Sched, k + 3)
       /\ ArmMessage(msg', k + 1, Sched)
  <2>1. regs = CompletedOf(msg, k)
    BY <1>3, ArmSame DEF regs, Arm!Completed, CompletedOf
  <2>2. msg' = BegunOf(CompletedOf(msg, k), k)
    BY <1>1, <1>3, <2>1, ArmSame DEF Arm!Begun, BegunOf
  <2>3. ASSUME NEW j \in 16 .. 4 * k + 15, k \in 1 .. 16 PROVE Recurs(Sched, j)
    <3>1. Known(k) <= Len(words) /\ Len(words) \in Nat
      BY <1>2, <1>c, SchedWords DEF AtGroup
    <3>2. j \in 16 .. 79 /\ j < Known(k)
      BY <1>k, <2>3
    <3>3. j < Len(words)
      BY <1>k, <3>1, <3>2
    <3> QED BY <1>2, <3>2, <3>3, SchedWords
  <2>4. k \in 1 .. 16 => \A j \in 16 .. 4 * k + 15 : Recurs(Sched, j)
    BY <2>3
  <2>5. /\ k \in 1 .. 16 => CompletedOf(msg, k)[(k + 3) % 4] = ForwardGroup(Sched, k + 3)
        /\ ArmMessage(BegunOf(CompletedOf(msg, k), k), k + 1, Sched)
    BY <1>c, <1>s, <2>4, ArmMessages
  <2> QED BY <2>1, <2>2, <2>5
<1>11. ArmMessage(msg', k + 1, y)
  <2>1. /\ k <= 16 => /\ ForwardGroup(y, k + 1) = ForwardGroup(Sched, k + 1)
                      /\ ForwardGroup(y, k + 2) = ForwardGroup(Sched, k + 2)
                      /\ ForwardGroup(y, k + 3) = ForwardGroup(Sched, k + 3)
        /\ ForwardGroup(y, k) = ForwardGroup(Sched, k)
    BY <1>5
  <2>2. /\ (k + 1) + 1 = k + 2 /\ (k + 1) + 2 = k + 3 /\ (k + 1) - 1 = k /\ k + 1 # 0
        /\ k + 1 <= 17 <=> k <= 16
        /\ k + 1 \in 1 .. 16 => k <= 16
    OBVIOUS
  <2> HIDE DEF Sched
  <2> QED BY <1>10, <2>1, <2>2 DEF ArmMessage
<1>12. /\ w' \in Words
       /\ \A i \in 0 .. 79 : w'[i] = IF i < SpilledTo(k + 1) THEN y[i] ELSE input'.stale[i]
  <2>0. SpilledTo(k + 1) = 4 * k + 16 /\ SpilledTo(k) = IF k = 0 THEN 16 ELSE 4 * k + 12
    BY DEF SpilledTo
  <2>i. input'.stale = input.stale
    BY <1>1
  <2>1. CASE k \in 1 .. 16
    <3> DEFINE low == 4 * k + 12
               out == Spilled(FALSE, w, 4 * (k + 3), ForwardGroup(Sched, k + 3))
    <3>1. w' = out
      BY <1>1, <1>3, <1>10, <2>1, ArmSame
    <3>2. k + 3 \in 0 .. 19
      BY <2>1
    <3>3. /\ out \in Words
          /\ \A i \in 0 .. 79 : out[i] = IF i >= 4 * (k + 3) /\ i < 4 * (k + 3) + 4 THEN Sched[i] ELSE w[i]
      BY <1>c, <1>s, <3>2, SpillForward
    <3>4. /\ low \in Nat /\ 4 * (k + 3) = low /\ SpilledTo(k + 1) = low + 4 /\ SpilledTo(k) = low
          /\ low + 4 <= Known(k)
      BY <1>k, <2>0, <2>1
    <3> HIDE DEF low, out, Sched
    <3>5. ASSUME NEW i \in 0 .. 79
          PROVE  w'[i] = IF i < low + 4 THEN y[i] ELSE input'.stale[i]
      <4>1. w[i] = IF i < low THEN Sched[i] ELSE input.stale[i]
        BY <1>c, <3>4
      <4>2. w'[i] = IF i >= low /\ i < low + 4 THEN Sched[i] ELSE w[i]
        BY <3>1, <3>3, <3>4
      <4>3. i < low + 4 => y[i] = Sched[i]
        BY <1>4, <1>k, <3>4
      <4>4. i < low => i < low + 4 /\ ~(i >= low /\ i < low + 4)
        BY <3>4
      <4>5. ~(i < low) => (i < low + 4 <=> i >= low /\ i < low + 4)
        BY <3>4
      <4> QED BY <2>i, <4>1, <4>2, <4>3, <4>4, <4>5
    <3> QED BY <3>1, <3>3, <3>4, <3>5
  <2>2. CASE k \notin 1 .. 16
    <3>1. w' = w
      BY <1>1, <1>3, <2>2
    <3>2. ASSUME NEW i \in 0 .. 79
          PROVE  /\ i < SpilledTo(k + 1) <=> i < SpilledTo(k)
                 /\ i < SpilledTo(k) => i \in 0 .. Known(k) - 1
      BY <1>k, <2>0, <2>2
    <3>3. \A i \in 0 .. 79 : i < SpilledTo(k) => y[i] = Sched[i]
      BY <1>4, <3>2
    <3> HIDE DEF Sched
    <3> QED BY <1>c, <2>i, <3>1, <3>2, <3>3
  <2> QED BY <2>1, <2>2
<1>13. /\ k + 1 > 15 => at_60' = StateAt(60)'
       /\ k + 1 > 16 => at_64' = StateAt(64)'
  <2>1. ASSUME NEW i, i = 4 * k, NEW j, j = k % 2 PROVE Arm!WithFifth(abcd, e[j]) = StateAt(i)
    <3> DEFINE r == StateAt(i)
    <3>1. abcd = First4(r) /\ e[j] = r[5] /\ r \in State
      BY <1>c, <1>s, <2>1
    <3> HIDE DEF r
    <3>2. Arm!WithFifth(abcd, e[j]) = <<r[1], r[2], r[3], r[4], r[5]>>
      BY <3>1 DEF Arm!WithFifth, First4
    <3>3. Arm!WithFifth(abcd, e[j]) = r
      BY <3>1, <3>2, StateParts
    <3> QED BY <3>3 DEF r
  <2>2. k = 15 => Arm!WithFifth(abcd, e[1]) = StateAt(60)
    BY <2>1
  <2>3. k = 16 => Arm!WithFifth(abcd, e[0]) = StateAt(64)
    BY <2>1
  <2>4. /\ k > 14 => StateAt(60)' = StateAt(60)
        /\ k > 15 => StateAt(64)' = StateAt(64)
    BY <1>4
  <2>5. k > 14 => at_60' = StateAt(60)
    BY <1>1, <1>3, <1>c, <2>2
  <2>6. k > 15 => at_64' = StateAt(64)
    BY <1>1, <1>3, <1>c, <2>3
  <2> QED BY <2>4, <2>5, <2>6
<1>14. ArmCompress'
  <2>1. /\ AtGroup(g)'
        /\ ArmMessage(msg, g, Sched)'
    BY <1>4, <1>7, <1>11 DEF AtGroup, ArmMessage, y
  <2>2. /\ g' <= 19 => tmp'[g' % 2] = WithConstant(ForwardGroup(y, g'), g')
        /\ g' <= 18 => tmp'[(g' + 1) % 2] = WithConstant(ForwardGroup(y, g' + 1), g' + 1)
    <3>1. /\ g' <= 19 <=> k <= 18
          /\ g' <= 18 <=> k <= 17
          /\ (k + 1) + 1 = k + 2 /\ ((k + 1) + 1) % 2 = k % 2
      BY <1>7
    <3> QED BY <1>7, <1>9, <3>1
  <2>3. \A i \in 0 .. 79 : w'[i] = IF i < SpilledTo(g') THEN y[i] ELSE input'.stale[i]
    BY <1>7, <1>12
  <2>4. /\ g' > 15 => at_60' = StateAt(60)'
        /\ g' > 16 => at_64' = StateAt(64)'
    BY <1>7, <1>13
  <2> QED BY <1>8, <1>9, <1>12, <2>1, <2>2, <2>3, <2>4 DEF ArmCompress, WithConstant, ForwardGroup, SpilledTo, y
<1> QED BY <1>1, <1>3, <1>4, <1>7, <1>8, <1>14 DEF ArmInv

LEMMA ArmFeedForward ==
  ASSUME ArmInv, Arm!FeedForward
  PROVE  ArmInv'
<1>1. /\ phase = "compress" /\ g = 20 /\ phase' = "ensure"
      /\ abcd' = Arm!PlusAll(Arm!load_abcd(input.ihv), abcd)
      /\ e' = [e EXCEPT ![0] = Plus(e[0], input.ihv[5])]
      /\ state' = Arm!WithFifth(abcd', e'[0])
      /\ input' = input /\ w' = w /\ at_60' = at_60 /\ at_64' = at_64
      /\ words' = words /\ trail' = trail
  BY DEF Arm!FeedForward, Arm!school
<1>2. ArmCompress /\ School /\ DOMAIN e = 0 .. 1
  BY <1>1 DEF ArmInv
<1> DEFINE r == StateAt(80)
           h == input.ihv
<1>3. Complete
  <2>1. Len(trail) = 4 * 20 + 1 /\ Known(20) <= Len(words)
    BY <1>1, <1>2 DEF ArmCompress, AtGroup
  <2>2. Known(20) = 80 /\ Len(words) \in Nat
    BY <1>2, SchedWords DEF Known
  <2> QED BY <2>1, <2>2 DEF Complete
<1>4. r \in State /\ h \in State
  BY <1>2, <1>3, CompleteStates, InputType DEF School
<1>5. abcd = First4(r) /\ e[0] = r[5]
  <2>1. 4 * g = 80 /\ g % 2 = 0
    BY <1>1
  <2> QED BY <1>2, <2>1 DEF ArmCompress
<1> HIDE DEF r
<1>6. e'[0] = Plus(r[5], h[5])
  BY <1>1, <1>2, <1>5
<1> HIDE DEF h
<1>7. abcd' = <<Plus(h[1], r[1]), Plus(h[2], r[2]), Plus(h[3], r[3]), Plus(h[4], r[4])>>
  <2>1. abcd' = PlusAll(First4(h), First4(r))
    BY <1>1, <1>5, ArmSame DEF Arm!load_abcd, First4, h
  <2> QED BY <2>1 DEF PlusAll, Lanewise, First4
<1>8. state' = <<Plus(h[1], r[1]), Plus(h[2], r[2]), Plus(h[3], r[3]), Plus(h[4], r[4]), Plus(r[5], h[5])>>
  BY <1>1, <1>6, <1>7 DEF Arm!WithFifth
<1>9. Plus(r[5], h[5]) = Plus(h[5], r[5])
  BY <1>4, StateParts, PlusAssumption
<1>10. state' = Sum(h, r)
  BY <1>8, <1>9 DEF Sum
<1>11. /\ School' /\ Sched' = Sched /\ Complete' /\ \A i : StateAt(i)' = StateAt(i)
  BY <1>1, <1>2, <1>3, SchoolStays
<1>12. state' = Sum(input.ihv, StateAt(80))'
  BY <1>1, <1>10, <1>11 DEF Sum, r, h
<1>13. \A i \in 0 .. 79 : w'[i] = Sched'[i]
  <2>1. SpilledTo(g) = 92
    BY <1>1 DEF SpilledTo
  <2>2. \A i \in 0 .. 79 : i < SpilledTo(g)
    BY <2>1
  <2> HIDE DEF Sched
  <2> QED BY <1>1, <1>2, <1>11, <2>2 DEF ArmCompress
<1>14. at_60' = StateAt(60)' /\ at_64' = StateAt(64)'
  BY <1>1, <1>2, <1>11 DEF ArmCompress
<1>15. ArmAfter'
  BY <1>1, <1>11, <1>12, <1>13, <1>14 DEF ArmAfter
<1>16. DOMAIN e' = 0 .. 1
  BY <1>1, <1>2
<1> QED BY <1>1, <1>11, <1>15, <1>16 DEF ArmInv

LEMMA ArmEnsureStates ==
  ASSUME ArmInv, Arm!EnsureStates
  PROVE  ArmInv'
<1>1. /\ phase = "ensure" /\ phase' = "start"
      /\ at_60' = Arm!StatesFrom6064(at_60, at_64, Arm!Stored).state_58
      /\ at_64' = Arm!StatesFrom6064(at_60, at_64, Arm!Stored).state_65
      /\ input' = input /\ w' = w /\ state' = state /\ words' = words /\ trail' = trail /\ e' = e
  BY DEF Arm!EnsureStates, Arm!compression, Arm!school
<1>2. School /\ ArmAfter /\ Complete /\ DOMAIN e = 0 .. 1
  BY <1>1 DEF ArmInv, ArmAfter
<1>3. \A i \in 0 .. 79 : Arm!Stored[i] = Sched[i]
  BY <1>2 DEF ArmAfter, Arm!Stored, Arm!At
<1>5. at_60 = StateAt(60) /\ at_64 = StateAt(64)
  BY <1>1, <1>2 DEF ArmAfter
<1>6. /\ at_60' = IF input.step = 58 THEN Unstep(58, Unstep(59, at_60, Sched[59]), Sched[58]) ELSE at_60
      /\ at_64' = Step(64, at_64, Sched[64])
  BY <1>1, <1>3, ArmSame DEF Arm!StatesFrom6064
<1>7. /\ at_60' = IF input.step = 58 THEN StateAt(58) ELSE StateAt(60)
      /\ at_64' = StateAt(65)
  BY <1>2, <1>5, <1>6, StatesFrom
<1>8. /\ School' /\ Sched' = Sched /\ Complete' /\ \A i : StateAt(i)' = StateAt(i)
  BY <1>1, <1>2, SchoolStays
<1>9. ArmAfter'
  <2>1. \A i \in 0 .. 79 : w'[i] = Sched'[i]
    BY <1>1, <1>2, <1>8 DEF ArmAfter
  <2>2. state' = Sum(input.ihv, StateAt(80))'
    BY <1>1, <1>2, <1>8 DEF ArmAfter, Sum
  <2> QED BY <1>1, <1>7, <1>8, <2>1, <2>2 DEF ArmAfter
<1> QED BY <1>1, <1>2, <1>8, <1>9 DEF ArmInv

(* What stays as it is through the run of a partner.                       *)
LEMMA ArmAfterStays ==
  ASSUME School, ArmAfter, phase \in {"start", "out", "in"}, phase' \in {"out", "in", "done"},
         input' = input, w' = w, state' = state, words' = words, trail' = trail,
         at_60' = at_60, at_64' = at_64
  PROVE  School' /\ ArmAfter'
<1>1. /\ School' /\ Sched' = Sched /\ Complete' /\ \A i : StateAt(i)' = StateAt(i)
  BY SchoolStays DEF ArmAfter
<1>2. \A i \in 0 .. 79 : w'[i] = Sched'[i]
  BY <1>1 DEF ArmAfter
<1>3. state' = Sum(input.ihv, StateAt(80))'
  BY <1>1 DEF ArmAfter, Sum
<1>4. /\ at_60' = IF input'.step = 58 THEN StateAt(58)' ELSE StateAt(60)'
      /\ at_64' = StateAt(65)'
  BY <1>1 DEF ArmAfter
<1> QED BY <1>1, <1>2, <1>3, <1>4 DEF ArmAfter

LEMMA ArmStartRecompress ==
  ASSUME ArmInv, Arm!StartRecompress
  PROVE  ArmInv'
<1> DEFINE from == IF input.step = 58 THEN at_60 ELSE at_64
<1>1. /\ phase = "start" /\ phase' = "out"
      /\ at' = Arm!BoundaryState(from, Arm!Stored)
      /\ abcd' = Arm!load_abcd(at') /\ e' = [e EXCEPT ![0] = at'[5]] /\ partner' = at'
      /\ g' = Arm!BoundaryStep \div 4
      /\ input' = input /\ w' = w /\ state' = state /\ words' = words /\ trail' = trail
      /\ at_60' = at_60 /\ at_64' = at_64
  BY DEF Arm!StartRecompress, Arm!compression, Arm!school
<1>2. School /\ ArmAfter /\ Complete /\ DOMAIN e = 0 .. 1
  BY <1>1 DEF ArmInv, ArmAfter
<1>3. \A i \in 0 .. 79 : Arm!Stored[i] = Sched[i]
  BY <1>2 DEF ArmAfter, Arm!Stored, Arm!At
<1>4. from \in State
  <2>1. /\ at_60 = IF input.step = 58 THEN StateAt(58) ELSE StateAt(60)
        /\ at_64 = StateAt(65)
    BY <1>1, <1>2 DEF ArmAfter
  <2>2. StateAt(58) \in State /\ StateAt(60) \in State /\ StateAt(65) \in State
    BY <1>2, CompleteStates
  <2> QED BY <2>1, <2>2
<1> HIDE DEF from
<1>5. at' = AtBoundary(from)
  BY <1>1, <1>3, ArmSame DEF Arm!BoundaryState, AtBoundary
<1>6. at' \in State
  BY <1>2, <1>4, <1>5, AtBoundaryType
<1>7. g' = Boundary /\ Boundary \in 0 .. 20
  BY <1>1 DEF Arm!BoundaryStep, Boundary
<1>8. School' /\ ArmAfter'
  BY <1>1, <1>2, ArmAfterStays
<1>9. DOMAIN e' = 0 .. 1 /\ e'[0] = at'[5]
  BY <1>1, <1>2
<1>10. ArmRun'
  <2>1. abcd' = First4(partner')
    BY <1>1 DEF Arm!load_abcd, First4
  <2>2. Boundary' = Boundary
    BY <1>1 DEF Boundary
  <2>3. g' \in 0 .. 20 /\ g' >= Boundary'
    BY <1>7, <2>2
  <2> QED BY <1>1, <1>6, <1>9, <2>1, <2>3 DEF ArmRun
<1> QED BY <1>1, <1>8, <1>9, <1>10 DEF ArmInv

LEMMA ArmPartnerGroup ==
  ASSUME ArmInv, phase \in {"out", "in"}, NEW k \in 0 .. 19, g = k,
         Arm!Group, phase = "in" => g < Boundary
  PROVE  ArmInv'
<1> DEFINE P == PartnerWords
           next == FourFrom(4 * k, partner, P[4 * k], P[4 * k + 1], P[4 * k + 2], P[4 * k + 3])
<1>1. /\ abcd' = Arm!vsha1(abcd, e[0], Arm!wk, Arm!Quarter(g))
      /\ e' = [e EXCEPT ![0] = Arm!vsha1h(abcd[1])]
      /\ g' = g + 1 /\ Arm!PartnerFourOn(4 * g)
      /\ phase' = phase /\ input' = input /\ w' = w /\ state' = state /\ at' = at
      /\ words' = words /\ trail' = trail /\ at_60' = at_60 /\ at_64' = at_64
  BY DEF Arm!Group, Arm!compression, Arm!school
<1>2. School /\ ArmAfter /\ Complete /\ ArmRun /\ DOMAIN e = 0 .. 1
  BY DEF ArmInv, ArmAfter
<1>3. /\ P \in Words /\ input.dm \in Words /\ Sched \in Words
      /\ \A i \in 0 .. 79 : PartnerWord(i) = P[i] /\ P[i] = Xor(Sched[i], input.dm[i])
  BY <1>2, PartnerOver, InputType, CompleteStates DEF School, PartnerWords
<1>k. /\ 4 * k \in 0 .. 79 /\ 4 * k + 1 \in 0 .. 79 /\ 4 * k + 2 \in 0 .. 79 /\ 4 * k + 3 \in 0 .. 79
  OBVIOUS
<1> HIDE DEF P
<1>4. Arm!wk = WithConstant(ForwardGroup(P, k), k)
  <2>1. Loaded(FALSE, w, 4 * k) = ForwardGroup(Sched, k)
    <3>1. \A i \in 0 .. 79 : w[i] = Sched[i]
      BY <1>2 DEF ArmAfter
    <3> HIDE DEF Sched
    <3> QED BY <1>3, <3>1, LoadForward
  <2>2. Arm!wk = WithConstant(XorAll(ForwardGroup(Sched, k), ForwardGroup(input.dm, k)), k)
    BY <2>1, ArmSame, ArmSameConstant DEF Arm!wk, ForwardGroup
  <2>3. /\ P[4 * k] = Xor(Sched[4 * k], input.dm[4 * k])
        /\ P[4 * k + 1] = Xor(Sched[4 * k + 1], input.dm[4 * k + 1])
        /\ P[4 * k + 2] = Xor(Sched[4 * k + 2], input.dm[4 * k + 2])
        /\ P[4 * k + 3] = Xor(Sched[4 * k + 3], input.dm[4 * k + 3])
    BY <1>3, <1>k
  <2> HIDE DEF Sched
  <2>4. XorAll(ForwardGroup(Sched, k), ForwardGroup(input.dm, k)) = ForwardGroup(P, k)
    BY <2>3 DEF XorAll, Lanewise, ForwardGroup
  <2> QED BY <2>2, <2>4
<1>5. partner \in State /\ abcd = First4(partner) /\ e[0] = partner[5] /\ abcd[1] = partner[1]
  BY <1>2 DEF ArmRun, First4
<1>6. /\ next \in State /\ next[5] = Rol(30, partner[1]) /\ abcd' = First4(next)
  <2>1. Arm!Quarter(g) = k \div 5
    BY DEF Arm!Quarter
  <2>2. abcd' = vsha1(First4(partner), partner[5], WithConstant(ForwardGroup(P, k), k), k \div 5)
    BY <1>1, <1>4, <1>5, <2>1, ArmSame
  <2> QED BY <1>3, <1>5, <2>2, ArmFourRounds
<1>7. partner' = next
  <2>1. partner' = FourFrom(4 * k, partner, PartnerWord(4 * k), PartnerWord(4 * k + 1),
                            PartnerWord(4 * k + 2), PartnerWord(4 * k + 3))
    BY <1>1, ArmSameSchool DEF PartnerFourOn, FourFrom
  <2>2. /\ PartnerWord(4 * k) = P[4 * k] /\ PartnerWord(4 * k + 1) = P[4 * k + 1]
        /\ PartnerWord(4 * k + 2) = P[4 * k + 2] /\ PartnerWord(4 * k + 3) = P[4 * k + 3]
    BY <1>3, <1>k
  <2> QED BY <2>1, <2>2
<1> HIDE DEF next
<1>8. DOMAIN e' = 0 .. 1 /\ e'[0] = partner'[5]
  BY <1>1, <1>2, <1>5, <1>6, <1>7 DEF Arm!vsha1h
<1>9. School' /\ ArmAfter'
  BY <1>1, <1>2, ArmAfterStays
<1>10. ArmRun'
  <2>1. abcd' = First4(partner') /\ partner' \in State /\ at' \in State
    BY <1>1, <1>2, <1>6, <1>7 DEF ArmRun
  <2> DEFINE b == Boundary
  <2>2. b \in 15 .. 16 /\ Boundary' = b /\ g' = k + 1 /\ phase' = phase
    BY <1>1 DEF Boundary
  <2>3. /\ phase = "out" => k >= b
        /\ phase = "in" => k < b
    BY <1>2 DEF ArmRun
  <2> HIDE DEF b
  <2>4. /\ g' \in 0 .. 20
        /\ phase' = "out" => g' >= Boundary'
        /\ phase' = "in" => g' <= Boundary'
    BY <2>2, <2>3
  <2> QED BY <1>8, <2>1, <2>4 DEF ArmRun
<1> QED BY <1>1, <1>8, <1>9, <1>10 DEF ArmInv

LEMMA ArmGroupOut ==
  ASSUME ArmInv, Arm!GroupOut
  PROVE  ArmInv'
<1>1. phase = "out" /\ g < 20 /\ Arm!Group
  BY DEF Arm!GroupOut
<1>2. PICK k \in 0 .. 19 : g = k
  BY <1>1 DEF ArmInv, ArmRun
<1>3. phase \in {"out", "in"} /\ phase # "in"
  BY <1>1
<1> QED BY <1>1, <1>2, <1>3, ArmPartnerGroup

LEMMA ArmGroupIn ==
  ASSUME ArmInv, Arm!GroupIn
  PROVE  ArmInv'
<1>1. phase = "in" /\ g < Boundary /\ Arm!Group
  BY DEF Arm!GroupIn, Arm!BoundaryStep, Boundary
<1>2. Boundary \in 15 .. 16
  BY DEF Boundary
<1>3. PICK k \in 0 .. 19 : g = k
  BY <1>1, <1>2 DEF ArmInv, ArmRun
<1> QED BY <1>1, <1>3, ArmPartnerGroup

LEMMA ArmTurnRound ==
  ASSUME ArmInv, Arm!TurnRound
  PROVE  ArmInv'
<1> DEFINE p == partner
           o == state
<1>1. /\ phase = "out" /\ g = 20 /\ phase' = "in" /\ g' = 0
      /\ abcd' = Arm!MinusAll(Arm!load_abcd(o), abcd)
      /\ e' = [e EXCEPT ![0] = Minus(o[5], e[0])]
      /\ partner' = Arm!Difference(o, p)
      /\ input' = input /\ w' = w /\ state' = state /\ at' = at
      /\ words' = words /\ trail' = trail /\ at_60' = at_60 /\ at_64' = at_64
  BY DEF Arm!TurnRound, Arm!compression, Arm!school
<1>2. School /\ ArmAfter /\ ArmRun /\ Boundary \in 15 .. 16 /\ DOMAIN e = 0 .. 1
  BY <1>1 DEF ArmInv, Boundary
<1>3. p \in State /\ abcd = First4(p) /\ at \in State /\ e[0] = p[5]
  BY <1>2 DEF ArmRun
<1>4. o \in State
  BY <1>2, OutputType DEF ArmAfter
<1>e. DOMAIN e' = 0 .. 1 /\ e'[0] = Minus(o[5], p[5])
  BY <1>1, <1>2, <1>3
<1> HIDE DEF p, o
<1>5. School' /\ ArmAfter'
  BY <1>1, <1>2, ArmAfterStays DEF o
<1>6. partner' = Difference(o, p) /\ partner' \in State
  BY <1>1, <1>3, <1>4, SumType, ArmSameSchool
<1>7. abcd' = First4(partner') /\ e'[0] = partner'[5]
  <2>1. abcd' = MinusAll(First4(o), First4(p))
    BY <1>1, <1>3, ArmSame DEF Arm!load_abcd, First4
  <2> QED BY <1>e, <1>6, <2>1 DEF MinusAll, Lanewise, First4, Difference
<1>8. ArmRun'
  BY <1>1, <1>3, <1>6, <1>7 DEF ArmRun, Boundary
<1> QED BY <1>1, <1>5, <1>e, <1>8 DEF ArmInv

LEMMA ArmCompare ==
  ASSUME ArmInv, Arm!Compare
  PROVE  ArmInv'
<1>1. /\ phase = "in" /\ phase' = "done"
      /\ attack' = (Arm!WithFifth(abcd, e[0]) = at)
      /\ input' = input /\ w' = w /\ state' = state /\ at' = at /\ partner' = partner
      /\ words' = words /\ trail' = trail /\ at_60' = at_60 /\ at_64' = at_64 /\ e' = e
  BY DEF Arm!Compare, Arm!compression, Arm!school
<1>2. School /\ ArmAfter /\ ArmRun /\ DOMAIN e = 0 .. 1
  BY <1>1 DEF ArmInv
<1>3. Arm!WithFifth(abcd, e[0]) = partner
  <2>1. partner \in State /\ abcd = First4(partner) /\ e[0] = partner[5]
    BY <1>2 DEF ArmRun
  <2>2. Arm!WithFifth(abcd, e[0]) = <<partner[1], partner[2], partner[3], partner[4], partner[5]>>
    BY <2>1 DEF Arm!WithFifth, First4
  <2> QED BY <2>1, <2>2, StateParts
<1>4. School' /\ ArmAfter'
  BY <1>1, <1>2, ArmAfterStays
<1> QED BY <1>1, <1>2, <1>3, <1>4 DEF ArmInv

(* The block's words, spilled as they are loaded.                          *)
LEMMA FourSpilled ==
  ASSUME NEW y \in Words, NEW array \in Words
  PROVE  LET out == Spilled(FALSE, Spilled(FALSE, Spilled(FALSE, Spilled(FALSE, array,
                      0, ForwardGroup(y, 0)), 4, ForwardGroup(y, 1)), 8, ForwardGroup(y, 2)),
                      12, ForwardGroup(y, 3))
         IN /\ out \in Words
            /\ \A i \in 0 .. 79 : out[i] = IF i < 16 THEN y[i] ELSE array[i]
<1> DEFINE a == Spilled(FALSE, array, 0, ForwardGroup(y, 0))
           b == Spilled(FALSE, a, 4, ForwardGroup(y, 1))
           c == Spilled(FALSE, b, 8, ForwardGroup(y, 2))
           d == Spilled(FALSE, c, 12, ForwardGroup(y, 3))
<1>1. /\ ForwardGroup(y, 0) = Forward(y, 0) /\ ForwardGroup(y, 1) = Forward(y, 4)
      /\ ForwardGroup(y, 2) = Forward(y, 8) /\ ForwardGroup(y, 3) = Forward(y, 12)
  BY DEF ForwardGroup, Forward
<1> DEFINE t0 == 0
           t4 == 4
           t8 == 8
           t12 == 12
<1>t. t0 = 0 /\ t4 = 4 /\ t8 = 8 /\ t12 = 12
  OBVIOUS
<1>f. /\ a = Spilled(FALSE, array, t0, Forward(y, t0)) /\ b = Spilled(FALSE, a, t4, Forward(y, t4))
      /\ c = Spilled(FALSE, b, t8, Forward(y, t8)) /\ d = Spilled(FALSE, c, t12, Forward(y, t12))
  <2> HIDE DEF a, b, c, d, t0, t4, t8, t12
  <2>1. a = Spilled(FALSE, array, 0, ForwardGroup(y, 0)) /\ b = Spilled(FALSE, a, 4, ForwardGroup(y, 1))
    BY DEF a, b
  <2>2. c = Spilled(FALSE, b, 8, ForwardGroup(y, 2)) /\ d = Spilled(FALSE, c, 12, ForwardGroup(y, 3))
    BY DEF c, d
  <2> QED BY <1>1, <1>t, <2>1, <2>2
<1>u. t0 \in 0 .. 76 /\ t4 \in 0 .. 76 /\ t8 \in 0 .. 76 /\ t12 \in 0 .. 76
  OBVIOUS
<1> HIDE DEF a, b, c, d, t0, t4, t8, t12
<1>a. a \in Words /\ \A j \in 0 .. 79 : a[j] = IF j >= t0 /\ j < t0 + 4 THEN y[j] ELSE array[j]
  BY <1>f, <1>u, SpillAt
<1>b. b \in Words /\ \A j \in 0 .. 79 : b[j] = IF j >= t4 /\ j < t4 + 4 THEN y[j] ELSE a[j]
  <2>1. a \in Words /\ t4 \in 0 .. 76
    BY <1>a, <1>u
  <2>2. /\ Spilled(FALSE, a, t4, Forward(y, t4)) \in Words
        /\ \A j \in 0 .. 79 : Spilled(FALSE, a, t4, Forward(y, t4))[j]
                               = IF j >= t4 /\ j < t4 + 4 THEN y[j] ELSE a[j]
    BY <2>1, SpillAt
  <2> QED BY <1>f, <2>2
<1>c. c \in Words /\ \A j \in 0 .. 79 : c[j] = IF j >= t8 /\ j < t8 + 4 THEN y[j] ELSE b[j]
  <2>1. b \in Words /\ t8 \in 0 .. 76
    BY <1>b, <1>u
  <2>2. /\ Spilled(FALSE, b, t8, Forward(y, t8)) \in Words
        /\ \A j \in 0 .. 79 : Spilled(FALSE, b, t8, Forward(y, t8))[j]
                               = IF j >= t8 /\ j < t8 + 4 THEN y[j] ELSE b[j]
    BY <2>1, SpillAt
  <2> QED BY <1>f, <2>2
<1>d. d \in Words /\ \A j \in 0 .. 79 : d[j] = IF j >= t12 /\ j < t12 + 4 THEN y[j] ELSE c[j]
  <2>1. c \in Words /\ t12 \in 0 .. 76
    BY <1>c, <1>u
  <2>2. /\ Spilled(FALSE, c, t12, Forward(y, t12)) \in Words
        /\ \A j \in 0 .. 79 : Spilled(FALSE, c, t12, Forward(y, t12))[j]
                               = IF j >= t12 /\ j < t12 + 4 THEN y[j] ELSE c[j]
    BY <2>1, SpillAt
  <2> QED BY <1>f, <2>2
<1>2. ASSUME NEW j \in 0 .. 79 PROVE d[j] = IF j < 16 THEN y[j] ELSE array[j]
  BY <1>t, <1>a, <1>b, <1>c, <1>d
<1> QED BY <1>d, <1>2 DEF a, b, c, d

LEMMA ArmStart ==
  ASSUME Arm!Init
  PROVE  ArmInv
<1>1. /\ SchoolStarts /\ phase = "compress" /\ g = 0
      /\ abcd = Arm!load_abcd(input.ihv) /\ e = [i \in 0 .. 1 |-> input.ihv[5]]
      /\ msg = [k \in 0 .. 3 |-> Arm!BlockGroup(k)]
      /\ tmp = [i \in 0 .. 1 |-> Arm!WithConstant(msg[i], i)]
      /\ w = Arm!Spilled(FALSE, Arm!Spilled(FALSE, Arm!Spilled(FALSE, Arm!Spilled(FALSE, input.stale,
               0, msg[0]), 4, msg[1]), 8, msg[2]), 12, msg[3])
  BY ArmSameSchool DEF Arm!Init
<1>2. School /\ AtGroup(0) /\ StateAt(0) = input.ihv
  BY <1>1, SchoolStart
<1>s. Sched \in Words /\ input.stale \in Words
  BY <1>2, SchedWords, InputType DEF School
<1>3. ASSUME NEW k \in 0 .. 3 PROVE msg[k] = ForwardGroup(Sched, k)
  <2>1. /\ 4 * k \in 0 .. 15 /\ 4 * k + 1 \in 0 .. 15 /\ 4 * k + 2 \in 0 .. 15 /\ 4 * k + 3 \in 0 .. 15
        /\ (4 * k + 1) + 1 = 4 * k + 2 /\ (4 * k + 2) + 1 = 4 * k + 3 /\ (4 * k + 3) + 1 = 4 * k + 4
    OBVIOUS
  <2>2. \A i \in 0 .. 15 : Sched[i] = input.m[i + 1]
    BY <1>2, SchedWords
  <2> HIDE DEF Sched
  <2>3. /\ Sched[4 * k] = input.m[4 * k + 1] /\ Sched[4 * k + 1] = input.m[4 * k + 2]
        /\ Sched[4 * k + 2] = input.m[4 * k + 3] /\ Sched[4 * k + 3] = input.m[4 * k + 4]
    BY <2>1, <2>2
  <2>4. msg[k] = Arm!BlockGroup(k)
    BY <1>1
  <2> QED BY <2>3, <2>4 DEF Arm!BlockGroup, ForwardGroup
<1>4. /\ w \in Words
      /\ \A i \in 0 .. 79 : w[i] = IF i < 16 THEN Sched[i] ELSE input.stale[i]
  <2>1. /\ msg[0] = ForwardGroup(Sched, 0) /\ msg[1] = ForwardGroup(Sched, 1)
        /\ msg[2] = ForwardGroup(Sched, 2) /\ msg[3] = ForwardGroup(Sched, 3)
    BY <1>3
  <2> HIDE DEF Sched
  <2>2. w = Spilled(FALSE, Spilled(FALSE, Spilled(FALSE, Spilled(FALSE, input.stale,
               0, ForwardGroup(Sched, 0)), 4, ForwardGroup(Sched, 1)), 8, ForwardGroup(Sched, 2)),
               12, ForwardGroup(Sched, 3))
    <3>1. w = Arm!Spilled(FALSE, Arm!Spilled(FALSE, Arm!Spilled(FALSE, Arm!Spilled(FALSE, input.stale,
               0, ForwardGroup(Sched, 0)), 4, ForwardGroup(Sched, 1)), 8, ForwardGroup(Sched, 2)),
               12, ForwardGroup(Sched, 3))
      BY <1>1, <2>1
    <3>2. \A array, i, x : Arm!Spilled(FALSE, array, i, x) = Spilled(FALSE, array, i, x)
      BY ArmSame
    <3> DEFINE A(x, i, f) == Arm!Spilled(FALSE, x, i, f)
               B(x, i, f) == Spilled(FALSE, x, i, f)
               f0 == ForwardGroup(Sched, 0)
               f1 == ForwardGroup(Sched, 1)
               f2 == ForwardGroup(Sched, 2)
               f3 == ForwardGroup(Sched, 3)
    <3>3. \A x, i, f : A(x, i, f) = B(x, i, f)
      BY <3>2
    <3>4. w = A(A(A(A(input.stale, 0, f0), 4, f1), 8, f2), 12, f3)
      BY <3>1
    <3> HIDE DEF A, B, f0, f1, f2, f3
    <3>5. w = B(B(B(B(input.stale, 0, f0), 4, f1), 8, f2), 12, f3)
      BY <3>3, <3>4
    <3> QED BY <3>5 DEF B, f0, f1, f2, f3
  <2> QED BY <1>s, <2>2, FourSpilled
<1>5. /\ abcd = First4(StateAt(4 * g)) /\ AtGroup(g) /\ DOMAIN e = 0 .. 1
      /\ e[g % 2] = StateAt(4 * g)[5]
  <2>1. 4 * g = 0 /\ g % 2 = 0
    BY <1>1
  <2>2. abcd = First4(input.ihv)
    BY <1>1 DEF Arm!load_abcd, First4
  <2> QED BY <1>1, <1>2, <2>1, <2>2
<1>6. /\ DOMAIN tmp = 0 .. 1
      /\ tmp[0] = WithConstant(ForwardGroup(Sched, 0), 0)
      /\ tmp[1] = WithConstant(ForwardGroup(Sched, 1), 1)
  BY <1>1, <1>3, ArmSameConstant
<1>7. ArmMessage(msg, 0, Sched)
  <2>1. DOMAIN msg = 0 .. 3
    BY <1>1
  <2>2. /\ msg[0] = ForwardGroup(Sched, 0) /\ msg[1] = ForwardGroup(Sched, 1)
        /\ msg[2] = ForwardGroup(Sched, 2) /\ msg[3] = ForwardGroup(Sched, 3)
    BY <1>3
  <2> HIDE DEF Sched
  <2>3. 0 % 4 = 0 /\ (0 + 1) % 4 = 1 /\ (0 + 2) % 4 = 2 /\ (0 + 3) % 4 = 3
        /\ 0 + 1 = 1 /\ 0 + 2 = 2 /\ 0 + 3 = 3 /\ 0 \notin 1 .. 16
    BY SMT
  <2> QED BY <2>1, <2>2, <2>3 DEF ArmMessage
<1>8. ArmCompress
  <2>1. /\ g % 2 = 0 /\ (g + 1) % 2 = 1 /\ g + 1 = 1 /\ g = 0 /\ SpilledTo(g) = 16
        /\ ~(g > 15) /\ ~(g > 16)
    BY <1>1 DEF SpilledTo
  <2> HIDE DEF Sched
  <2> QED BY <1>4, <1>5, <1>6, <1>7, <2>1 DEF ArmCompress
<1> QED BY <1>1, <1>2, <1>5, <1>8 DEF ArmInv

LEMMA ArmStep ==
  ASSUME ArmInv, Arm!Next
  PROVE  ArmInv'
BY ArmRounds, ArmFeedForward, ArmEnsureStates, ArmStartRecompress, ArmGroupOut,
   ArmTurnRound, ArmGroupIn, ArmCompare DEF Arm!Next

(* What the runs check of ARMv8.                                           *)
LEMMA ArmMeets ==
  ASSUME ArmInv
  PROVE  /\ Arm!RegistersSpellState /\ Arm!SpilledInStepOrder
         /\ Arm!LeavesDigestAndStates /\ Arm!AnswersForPartner
<1>s. School
  BY DEF ArmInv
<1>f. ASSUME NEW r \in State PROVE Arm!WithFifth(First4(r), r[5]) = r
  <2>1. Arm!WithFifth(First4(r), r[5]) = <<r[1], r[2], r[3], r[4], r[5]>>
    BY DEF Arm!WithFifth, First4
  <2> QED BY <2>1, StateParts
<1>k. ASSUME phase = "compress", NEW i \in 0 .. 79, i < SpilledTo(g) \/ i < 4 * g + 8
      PROVE  Sched[i] = W(i)
  <2>1. ArmCompress /\ g \in 0 .. 20 /\ Len(words) \in Nat
    BY <1>s, <1>k, SchedWords DEF ArmInv
  <2>2. Known(g) <= Len(words)
    BY <2>1 DEF ArmCompress, AtGroup
  <2>3. i < Known(g) /\ Known(g) \in Nat
    BY <2>1, <1>k DEF Known, SpilledTo
  <2>4. i \in Nat /\ i < Len(words)
    BY <2>1, <2>2, <2>3
  <2> QED BY <1>s, <2>4, SchedWords
<1>1. Arm!RegistersSpellState
  <2>1. ASSUME phase = "compress"
        PROVE  /\ Arm!WithFifth(abcd, e[g % 2]) = StateAt(4 * g)
               /\ \A k \in g .. (IF g < 19 THEN g + 1 ELSE 19) :
                    tmp[k % 2] = [i \in 1 .. 4 |-> Plus(W(4 * k + i - 1), K[Arm!Quarter(k)])]
    <3>1. ArmCompress /\ g \in 0 .. 20
      BY <2>1 DEF ArmInv
    <3>2. StateAt(4 * g) \in State
      BY <1>s, <3>1, StateOfGroup DEF ArmCompress
    <3>3. Arm!WithFifth(abcd, e[g % 2]) = StateAt(4 * g)
      BY <1>f, <3>1, <3>2 DEF ArmCompress
    <3>4. ASSUME NEW k \in g .. (IF g < 19 THEN g + 1 ELSE 19)
          PROVE  tmp[k % 2] = [i \in 1 .. 4 |-> Plus(W(4 * k + i - 1), K[Arm!Quarter(k)])]
      <4>1. k \in 0 .. 19 /\ (k = g \/ k = g + 1) /\ k <= g + 1
        BY <3>1
      <4>2. tmp[k % 2] = WithConstant(ForwardGroup(Sched, k), k)
        BY <3>1, <4>1 DEF ArmCompress
      <4>3. /\ Sched[4 * k] = W(4 * k) /\ Sched[4 * k + 1] = W(4 * k + 1)
            /\ Sched[4 * k + 2] = W(4 * k + 2) /\ Sched[4 * k + 3] = W(4 * k + 3)
        <5>1. /\ 4 * k \in 0 .. 79 /\ 4 * k + 1 \in 0 .. 79 /\ 4 * k + 2 \in 0 .. 79 /\ 4 * k + 3 \in 0 .. 79
              /\ 4 * k < 4 * g + 8 /\ 4 * k + 1 < 4 * g + 8 /\ 4 * k + 2 < 4 * g + 8 /\ 4 * k + 3 < 4 * g + 8
          BY <3>1, <4>1
        <5> QED BY <1>k, <2>1, <5>1
      <4> DEFINE c == K[k \div 5]
                 f == [i \in 1 .. 4 |-> Plus(W(4 * k + i - 1), c)]
      <4>4. /\ f[1] = Plus(W(4 * k), c) /\ f[2] = Plus(W(4 * k + 1), c)
            /\ f[3] = Plus(W(4 * k + 2), c) /\ f[4] = Plus(W(4 * k + 3), c)
        <5>1. /\ 4 * k + 1 - 1 = 4 * k /\ 4 * k + 2 - 1 = 4 * k + 1
              /\ 4 * k + 3 - 1 = 4 * k + 2 /\ 4 * k + 4 - 1 = 4 * k + 3
          BY <4>1
        <5> QED BY <5>1
      <4>5. f = <<f[1], f[2], f[3], f[4]>>
        <5> HIDE DEF c
        <5> QED OBVIOUS
      <4>6. tmp[k % 2] = <<Plus(W(4 * k), c), Plus(W(4 * k + 1), c), Plus(W(4 * k + 2), c),
                           Plus(W(4 * k + 3), c)>>
        BY <4>2, <4>3 DEF WithConstant, ForwardGroup
      <4>7. tmp[k % 2] = f
        <5> HIDE DEF f, c
        <5> QED BY <4>4, <4>5, <4>6
      <4> QED BY <4>7 DEF Arm!Quarter
    <3> QED BY <3>3, <3>4
  <2>2. ASSUME phase \in {"out", "in"} PROVE Arm!WithFifth(abcd, e[0]) = partner
    <3>1. partner \in State /\ abcd = First4(partner) /\ e[0] = partner[5]
      BY <2>2 DEF ArmInv, ArmRun
    <3> QED BY <1>f, <3>1
  <2> QED BY <2>1, <2>2, ArmSameSchool DEF Arm!RegistersSpellState
<1>2. Arm!SpilledInStepOrder
  <2>1. CASE phase # "compress"
    <3>1. ArmAfter
      BY <2>1 DEF ArmInv
    <3>2. \A i \in 0 .. 79 : Sched[i] = W(i)
      BY <1>s, <3>1, CompleteStates DEF ArmAfter
    <3>3. \A i \in 0 .. 79 : w[i] = Sched[i]
      BY <3>1 DEF ArmAfter
    <3> HIDE DEF Sched
    <3> QED BY <2>1, <3>2, <3>3, ArmSameSchool DEF Arm!SpilledInStepOrder, Arm!At
  <2>2. CASE phase = "compress"
    <3>1. ArmCompress /\ g \in 0 .. 20
      BY <2>2 DEF ArmInv
    <3>2. 4 * (IF g = 0 THEN 4 ELSE g + 3) = SpilledTo(g)
      BY <3>1 DEF SpilledTo
    <3>3. \A i \in 0 .. 79 : i < SpilledTo(g) => Sched[i] = W(i)
      BY <1>k, <2>2
    <3>4. \A i \in 0 .. 79 : w[i] = IF i < SpilledTo(g) THEN Sched[i] ELSE input.stale[i]
      BY <3>1 DEF ArmCompress
    <3> HIDE DEF Sched
    <3> QED BY <2>2, <3>2, <3>3, <3>4, ArmSameSchool DEF Arm!SpilledInStepOrder, Arm!At
  <2> QED BY <2>1, <2>2
<1>3. Arm!LeavesDigestAndStates
  <2>1. phase # "compress" => ArmAfter
    BY DEF ArmInv
  <2> QED BY <2>1, ArmSameSchool DEF Arm!LeavesDigestAndStates, ArmAfter
<1>4. Arm!AnswersForPartner
  BY DEF ArmInv, Arm!AnswersForPartner
<1> QED BY <1>1, <1>2, <1>3, <1>4
-----------------------------------------------------------------------------
(* The portable compressions: a step at a time.                            *)
LEMMA ScheduleKept ==
  ASSUME School, IsSchedule(words', input.m), Extends(words', words)
  PROVE  /\ Sched' \in Words
         /\ \A j \in 0 .. 79 : j < Len(words) => Sched'[j] = Sched[j]
         /\ \A j \in 0 .. 15 : Sched'[j] = input.m[j + 1]
         /\ \A j \in 16 .. 79 : j < Len(words') => Recurs(Sched', j)
<1>l. Len(words) \in Nat /\ \A i \in Nat : i < Len(words) => Sched[i] = W(i)
  BY SchedWords
<1>1. /\ SchedOf(words') \in Words /\ Len(words') \in Nat
      /\ \A i \in Nat : i < Len(words') => SchedOf(words')[i] = words'[i + 1]
      /\ \A i \in 0 .. 15 : SchedOf(words')[i] = input.m[i + 1]
      /\ \A i \in 16 .. 79 : i < Len(words') => Recurs(SchedOf(words'), i)
  BY SchedOfWords
<1>2. Sched' = SchedOf(words')
  BY DEF Sched
<1> HIDE DEF Sched
<1>3. ASSUME NEW j \in 0 .. 79, j < Len(words) PROVE Sched'[j] = Sched[j]
  <2>0. Len(words) <= Len(words')
    BY DEF Extends
  <2>1. j \in Nat /\ j < Len(words') /\ j + 1 \in 1 .. Len(words)
    <3>1. Len(words) \in Nat /\ Len(words') \in Nat
      BY <1>l, <1>1
    <3> QED BY <1>3, <2>0, <3>1
  <2>2. Sched'[j] = words'[j + 1] /\ Sched[j] = words[j + 1]
    BY <1>l, <1>1, <1>2, <1>3, <2>1 DEF W
  <2>3. words'[j + 1] = words[j + 1]
    BY <2>1 DEF Extends
  <2> QED BY <2>2, <2>3
<1> QED BY <1>1, <1>2, <1>3

LEMMA SchoolStep ==
  ASSUME School, NEW i \in 0 .. 79, Len(trail) = i + 1, i < Len(words),
         words' = OneWordOn(words), trail' = OneStepOn(trail), input' = input
  PROVE  /\ School' /\ Len(trail') = i + 2 /\ Sched' \in Words /\ Len(words') \in Nat
         /\ Len(words') = IF Len(words) < 80 THEN Len(words) + 1 ELSE Len(words)
         /\ \A j \in 0 .. 79 : j < Len(words) => Sched'[j] = Sched[j]
         /\ \A j \in 16 .. 79 : j < Len(words') => Recurs(Sched', j)
         /\ \A j \in 0 .. i : StateAt(j)' = StateAt(j)
         /\ StateAt(i + 1)' = Step(i, StateAt(i), Sched[i])
<1>l. /\ Len(words) \in Nat /\ Len(words) <= 80
      /\ \A j \in Nat : j < Len(words) => Sched[j] = W(j)
  BY SchedWords
<1>1. /\ IsSchedule(words', input.m) /\ Extends(words', words)
      /\ Len(words') = IF Len(words) < 80 THEN Len(words) + 1 ELSE Len(words)
  BY OneWord DEF School
<1>2. Len(words') \in Nat
  BY <1>l, <1>1
<1>3. /\ IsTrail(trail', words, input.ihv) /\ Extends(trail', trail)
      /\ Len(trail') = i + 2
      /\ trail'[i + 2] = Step(i, trail[i + 1], words[i + 1])
  <2>1. Len(trail) <= Len(words)
    BY <1>l
  <2>2. /\ IsTrail(OneStepOn(trail), words, input.ihv) /\ Extends(OneStepOn(trail), trail)
        /\ Len(OneStepOn(trail)) = Len(trail) + 1
        /\ OneStepOn(trail)[Len(trail) + 1] = Step(Len(trail) - 1, trail[Len(trail)], words[Len(trail)])
    BY <2>1, OneStep DEF School
  <2>3. Len(trail) + 1 = i + 2 /\ Len(trail) - 1 = i
    OBVIOUS
  <2> QED BY <2>2, <2>3
<1>4. IsTrail(trail', words', input.ihv)
  BY <1>l, <1>1, <1>2, <1>3, TrailOver
<1>5. School'
  BY <1>1, <1>4 DEF School
<1>6. ASSUME NEW j \in 0 .. i PROVE StateAt(j)' = StateAt(j)
  <2>1. j + 1 \in 1 .. Len(trail)
    OBVIOUS
  <2> QED BY <1>3, <2>1 DEF StateAt, Extends
<1>7. StateAt(i + 1)' = Step(i, StateAt(i), Sched[i])
  <2>1. Sched[i] = words[i + 1]
    BY <1>l DEF W
  <2>2. (i + 1) + 1 = i + 2
    OBVIOUS
  <2> QED BY <1>3, <2>1, <2>2 DEF StateAt
<1> QED BY <1>1, <1>2, <1>3, <1>5, <1>6, <1>7, ScheduleKept

(* Four words more, and no step.                                           *)
LEMMA SchoolWords ==
  ASSUME School, FourWordsOn, trail' = trail, input' = input
  PROVE  /\ School' /\ Sched' \in Words /\ Len(words') \in Nat /\ Len(words) <= Len(words')
         /\ Len(words') = IF Len(words) <= 76 THEN Len(words) + 4 ELSE 80
         /\ \A j \in 0 .. 79 : j < Len(words) => Sched'[j] = Sched[j]
         /\ \A j \in 16 .. 79 : j < Len(words') => Recurs(Sched', j)
         /\ \A j : StateAt(j)' = StateAt(j)
<1>1. /\ IsSchedule(words', input.m) /\ Extends(words', words) /\ Len(words') \in Nat
      /\ Len(words') = IF Len(words) <= 76 THEN Len(words) + 4 ELSE 80
  BY FourWords DEF School
<1>2. School'
  <2>1. IsTrail(trail, words', input.ihv)
    <3>1. Len(words) \in Nat
      BY SchedWords
    <3> QED BY <1>1, <3>1, TrailOver DEF School
  <2> QED BY <1>1, <2>1 DEF School
<1>3. Len(words) <= Len(words')
  BY <1>1 DEF Extends
<1>4. \A j : StateAt(j)' = StateAt(j)
  BY DEF StateAt
<1> QED BY <1>1, <1>2, <1>3, <1>4, ScheduleKept

(* Where the words go: each at a place of its own.                         *)
LEMMA AtPlace ==
  ASSUME NEW mirrored \in BOOLEAN, NEW i \in 0 .. 79
  PROVE  /\ At(mirrored, i) \in 0 .. 79
         /\ \A j \in 0 .. 79 : j # i => At(mirrored, j) # At(mirrored, i)
BY DEF At

LEMMA GroupsBeforeBounds ==
  ASSUME NEW i \in 0 .. 79
  PROVE  /\ GroupsBefore(i) \in Nat /\ GroupsBefore(i) <= 20 /\ i < 4 * GroupsBefore(i)
         /\ i = 79 => GroupsBefore(i) = 20
BY DEF GroupsBefore

LEMMA BuildType ==
  ASSUME build \in Builds
  PROVE  /\ build.backend \in {"scalar", "sse2"} /\ build.mirrored \in BOOLEAN
         /\ Sse2 => build.mirrored
BY BuildsAssumption DEF Sse2

(* What the portable compressions hold, in the schoolbook's terms: the     *)
(* groups sse2 has spilled are ahead of the rounds, and the words of both  *)
(* are at their places.                                                    *)
SoftGroups ==
  /\ groups \in 0 .. 20
  /\ DOMAIN v = 0 .. 19
  /\ t > 0 => groups >= GroupsBefore(t - 1)
  /\ 4 * groups <= Len(words)
  /\ \A k \in 0 .. 19 : k < groups => v[k] = Backward(Sched, 4 * k)
  /\ \A i \in 0 .. 79 : i < 4 * groups => w[79 - i] = Sched[i]
SoftState ==
  /\ School
  /\ build \in Builds
  /\ t \in 0 .. 80
  /\ added \in BOOLEAN
  /\ added => t = 80
  /\ Len(trail) = t + 1
  /\ 16 + t <= Len(words) \/ 80 <= Len(words)
  /\ s = StateAt(t)
  /\ t > 58 => state_58 = StateAt(58)
  /\ t > 65 => state_65 = StateAt(65)
  /\ ihv = IF added THEN Sum(input.ihv, StateAt(80)) ELSE input.ihv

SoftInv ==
  /\ SoftState
  /\ w \in Words
  /\ Sse2 => SoftGroups
  /\ ~Sse2 => \A i \in 0 .. 79 : i < t => w[Here(i)] = Sched[i]

LEMMA SoftStart ==
  ASSUME Init
  PROVE  SoftInv
<1>1. /\ SchoolStarts /\ build \in Builds
      /\ groups = 0 /\ s = input.ihv /\ t = 0 /\ added = FALSE
      /\ v = [k \in 0 .. 19 |-> Zeros] /\ w = input.stale /\ ihv = input.ihv
  BY DEF Init
<1>2. School /\ AtGroup(0) /\ StateAt(0) = input.ihv
  BY <1>1, SchoolStart
<1>3. Len(trail) = 0 + 1 /\ 16 <= Len(words) /\ Len(words) \in Nat
  <2>1. Len(trail) = 4 * 0 + 1
    BY <1>2 DEF AtGroup
  <2>2. 4 * 0 + 1 = 0 + 1
    OBVIOUS
  <2> QED BY <1>2, <2>1, <2>2, SchedWords
<1>4. w \in Words
  BY <1>1, <1>2, InputType DEF School
<1>5. SoftState
  <2>1. ~(t > 58) /\ ~(t > 65) /\ t \in 0 .. 80 /\ 16 + t <= Len(words)
    BY <1>1, <1>3
  <2> QED BY <1>1, <1>2, <1>3, <2>1 DEF SoftState
<1>6. SoftGroups
  <2>1. groups \in 0 .. 20 /\ ~(t > 0) /\ 4 * groups <= Len(words)
    BY <1>1, <1>3
  <2>2. \A k \in 0 .. 19 : ~(k < groups)
    BY <1>1
  <2>3. \A i \in 0 .. 79 : ~(i < 4 * groups)
    BY <1>1
  <2> QED BY <1>1, <2>1, <2>2, <2>3 DEF SoftGroups
<1>7. \A i \in 0 .. 79 : ~(i < t)
  BY <1>1
<1> QED BY <1>4, <1>5, <1>6, <1>7 DEF SoftInv

(* A step over its own word, whatever else it stores.                      *)
LEMMA SoftOver ==
  ASSUME SoftState, t < 80, NEW word, word = Sched[t], RunOver(word)
  PROVE  /\ SoftState' /\ t' = t + 1 /\ t \in 0 .. 79 /\ build' = build
         /\ groups' = groups /\ v' = v /\ t < Len(words)
         /\ Len(words) \in Nat /\ Len(words') \in Nat /\ Len(words) <= Len(words')
         /\ \A j \in 0 .. 79 : j < Len(words) => Sched'[j] = Sched[j]
         /\ \A j \in 16 .. 79 : j < Len(words') => Recurs(Sched', j)
<1>1. /\ School /\ build \in Builds /\ t \in 0 .. 80 /\ added \in BOOLEAN
      /\ Len(trail) = t + 1 /\ s = StateAt(t)
      /\ 16 + t <= Len(words) \/ 80 <= Len(words)
      /\ ~added /\ ihv = input.ihv
  BY DEF SoftState
<1>2. /\ state_58' = (IF t = 58 THEN s ELSE state_58)
      /\ state_65' = (IF t = 65 THEN s ELSE state_65)
      /\ s' = Step(t, s, word) /\ t' = t + 1
      /\ words' = OneWordOn(words) /\ trail' = OneStepOn(trail)
      /\ input' = input /\ build' = build /\ groups' = groups /\ added' = added
      /\ v' = v /\ ihv' = ihv
  BY DEF RunOver
<1>3. t \in 0 .. 79 /\ t < Len(words) /\ Len(words) \in Nat /\ Len(words) <= 80
  <2>1. Len(words) \in Nat /\ Len(words) <= 80
    BY <1>1, SchedWords
  <2> QED BY <1>1, <2>1
<1> PICK i \in 0 .. 79 : i = t
  BY <1>3
<1>4. /\ School' /\ Len(trail') = i + 2 /\ Len(words') \in Nat /\ Sched' \in Words
      /\ Len(words') = IF Len(words) < 80 THEN Len(words) + 1 ELSE Len(words)
      /\ \A j \in 0 .. 79 : j < Len(words) => Sched'[j] = Sched[j]
      /\ \A j \in 16 .. 79 : j < Len(words') => Recurs(Sched', j)
      /\ \A j \in 0 .. i : StateAt(j)' = StateAt(j)
      /\ StateAt(i + 1)' = Step(i, StateAt(i), Sched[i])
  <2>1. Len(trail) = i + 1 /\ i < Len(words)
    BY <1>1, <1>3
  <2>2. School /\ words' = OneWordOn(words) /\ trail' = OneStepOn(trail) /\ input' = input
    BY <1>1, <1>2
  <2> QED BY <2>1, <2>2, SchoolStep
<1>5. s' = StateAt(t)'
  <2>1. t' = i + 1 /\ s' = Step(i, StateAt(i), Sched[i])
    BY <1>1, <1>2
  <2> HIDE DEF Sched
  <2> QED BY <1>4, <2>1 DEF StateAt
<1>6. /\ Len(words) <= Len(words')
      /\ 16 + t' <= Len(words') \/ 80 <= Len(words')
      /\ t' \in 0 .. 80 /\ Len(trail') = t' + 1
  <2>1. t' = i + 1 /\ (16 + i <= Len(words) \/ 80 <= Len(words))
    BY <1>1, <1>2
  <2>2. Len(words) <= Len(words')
    BY <1>3, <1>4
  <2>3. 16 + t' <= Len(words') \/ 80 <= Len(words')
    BY <1>3, <1>4, <2>1
  <2> QED BY <1>4, <2>1, <2>2, <2>3
<1>7. t' > 58 => state_58' = StateAt(58)'
  <2>1. t' > 58 => t = 58 \/ t > 58
    BY <1>2, <1>3
  <2>2. t > 58 => t # 58 /\ 58 \in 0 .. i
    BY <1>3
  <2>3. t = 58 => 58 \in 0 .. i
    OBVIOUS
  <2>4. CASE t = 58
    BY <1>1, <1>2, <1>4, <2>3, <2>4
  <2>5. CASE t > 58
    <3>1. state_58 = StateAt(58)
      BY <2>5 DEF SoftState
    <3> QED BY <1>2, <1>4, <2>2, <2>5, <3>1
  <2> QED BY <2>1, <2>4, <2>5
<1>8. t' > 65 => state_65' = StateAt(65)'
  <2>1. t' > 65 => t = 65 \/ t > 65
    BY <1>2, <1>3
  <2>2. t > 65 => t # 65 /\ 65 \in 0 .. i
    BY <1>3
  <2>3. t = 65 => 65 \in 0 .. i
    OBVIOUS
  <2>4. CASE t = 65
    BY <1>1, <1>2, <1>4, <2>3, <2>4
  <2>5. CASE t > 65
    <3>1. state_65 = StateAt(65)
      BY <2>5 DEF SoftState
    <3> QED BY <1>2, <1>4, <2>2, <2>5, <3>1
  <2> QED BY <2>1, <2>4, <2>5
<1>9. /\ build' \in Builds /\ added' \in BOOLEAN /\ ~added' /\ ihv' = input'.ihv
  BY <1>1, <1>2
<1>10. SoftState'
  BY <1>4, <1>5, <1>6, <1>7, <1>8, <1>9 DEF SoftState
<1> QED BY <1>2, <1>3, <1>4, <1>6, <1>10

LEMMA BackwardKept ==
  ASSUME NEW y, NEW z, NEW n \in Nat, NEW k \in 0 .. 19, 4 * k + 4 <= n,
         \A j \in 0 .. 79 : j < n => z[j] = y[j]
  PROVE  Backward(z, 4 * k) = Backward(y, 4 * k)
<1>1. /\ 4 * k \in 0 .. 79 /\ 4 * k + 1 \in 0 .. 79 /\ 4 * k + 2 \in 0 .. 79 /\ 4 * k + 3 \in 0 .. 79
      /\ 4 * k < n /\ 4 * k + 1 < n /\ 4 * k + 2 < n /\ 4 * k + 3 < n
  OBVIOUS
<1> QED BY <1>1 DEF Backward

(* sse2: no step but on a word that is spilled.                            *)
LEMMA StepOverSpilled ==
  ASSUME SoftInv, StepDue, Sse2
  PROVE  /\ t \in 0 .. 79 /\ t < 4 * groups /\ GroupsBefore(t) <= groups
         /\ w[Here(t)] = Sched[t]
<1>1. t \in 0 .. 79 /\ ~(groups < GroupsBefore(t)) /\ build \in Builds
  BY DEF SoftInv, SoftState, StepDue, GroupDue
<1>2. SoftGroups
  BY DEF SoftInv
<1>3. groups \in 0 .. 20 /\ \A i \in 0 .. 79 : i < 4 * groups => w[79 - i] = Sched[i]
  BY <1>2 DEF SoftGroups
<1>4. GroupsBefore(t) \in Nat /\ t < 4 * GroupsBefore(t)
  BY <1>1, GroupsBeforeBounds
<1>5. GroupsBefore(t) <= groups /\ t < 4 * groups
  BY <1>1, <1>3, <1>4
<1>6. Here(t) = 79 - t
  BY <1>1, BuildType DEF Here, At
<1> HIDE DEF Sched
<1> QED BY <1>1, <1>3, <1>5, <1>6

LEMMA SoftOverSpilled ==
  ASSUME SoftInv, StepDue, Sse2, NEW word, word = Sched[t], RunOver(word), w' = w
  PROVE  SoftInv'
<1>1. SoftState /\ SoftGroups /\ w \in Words /\ t < 80
  BY DEF SoftInv, StepDue
<1>2. /\ SoftState' /\ t' = t + 1 /\ t \in 0 .. 79 /\ build' = build
      /\ groups' = groups /\ v' = v
      /\ Len(words) \in Nat /\ Len(words') \in Nat /\ Len(words) <= Len(words')
      /\ \A j \in 0 .. 79 : j < Len(words) => Sched'[j] = Sched[j]
  BY <1>1, SoftOver
<1>3. GroupsBefore(t) <= groups
  BY StepOverSpilled
<1>4. /\ groups \in 0 .. 20 /\ DOMAIN v = 0 .. 19 /\ 4 * groups <= Len(words)
  BY <1>1 DEF SoftGroups
<1>5. ASSUME NEW k \in 0 .. 19, k < groups PROVE v[k] = Backward(Sched', 4 * k)
  <2>1. v[k] = Backward(Sched, 4 * k)
    BY <1>1, <1>5 DEF SoftGroups
  <2>2. 4 * k + 4 <= Len(words)
    BY <1>2, <1>4, <1>5
  <2> HIDE DEF Sched
  <2>3. Backward(Sched', 4 * k) = Backward(Sched, 4 * k)
    BY <1>2, <2>2, BackwardKept
  <2> QED BY <2>1, <2>3
<1>6. ASSUME NEW i \in 0 .. 79, i < 4 * groups PROVE w[79 - i] = Sched'[i]
  <2>1. w[79 - i] = Sched[i]
    BY <1>1, <1>6 DEF SoftGroups
  <2>2. i < Len(words)
    BY <1>2, <1>4, <1>6
  <2> HIDE DEF Sched
  <2> QED BY <1>2, <2>1, <2>2
<1>7. SoftGroups'
  <2>1. 4 * groups' <= Len(words') /\ groups' \in 0 .. 20 /\ DOMAIN v' = 0 .. 19
    BY <1>2, <1>4
  <2>2. t' - 1 = t /\ GroupsBefore(t' - 1) <= groups'
    BY <1>2, <1>3
  <2>3. groups' >= GroupsBefore(t' - 1)
    <3>1. GroupsBefore(t' - 1) \in Nat
      BY <1>2, <2>2, GroupsBeforeBounds
    <3> QED BY <2>1, <2>2, <3>1
  <2>4. \A k \in 0 .. 19 : k < groups' => v'[k] = Backward(Sched', 4 * k)
    BY <1>2, <1>5
  <2>5. \A i \in 0 .. 79 : i < 4 * groups' => w'[79 - i] = Sched'[i]
    BY <1>2, <1>6
  <2> HIDE DEF Sched
  <2> QED BY <2>1, <2>3, <2>4, <2>5 DEF SoftGroups, GroupsBefore
<1>8. Sse2'
  BY <1>2 DEF Sse2
<1> QED BY <1>1, <1>2, <1>7, <1>8 DEF SoftInv

LEMMA SoftRunBlock ==
  ASSUME SoftInv, RunBlock
  PROVE  SoftInv'
<1>1. StepDue /\ Sse2 /\ t < 16 /\ RunOver(input.m[t + 1]) /\ w' = w
  BY DEF RunBlock
<1>2. t \in 0 .. 79 /\ School
  BY <1>1, StepOverSpilled DEF SoftInv, SoftState
<1>3. input.m[t + 1] = Sched[t]
  <2>1. t \in 0 .. 15
    BY <1>1, <1>2
  <2> QED BY <1>2, <2>1, SchedWords
<1> HIDE DEF Sched
<1> QED BY <1>1, <1>3, SoftOverSpilled

LEMMA SoftRun ==
  ASSUME SoftInv, Run
  PROVE  SoftInv'
<1>1. StepDue /\ Sse2 /\ RunOver(w[Here(t)]) /\ w' = w
  BY DEF Run
<1>2. w[Here(t)] = Sched[t]
  BY <1>1, StepOverSpilled
<1> HIDE DEF Sched
<1> QED BY <1>1, <1>2, SoftOverSpilled

(* scalar: each word is stored as its step takes it.                       *)
LEMMA SoftOverStored ==
  ASSUME SoftInv, StepDue, ~Sse2, NEW word, word = Sched[t], RunOver(word),
         w' = [w EXCEPT ![Here(t)] = word]
  PROVE  SoftInv'
<1>1. SoftState /\ w \in Words /\ t < 80 /\ build \in Builds /\ School
  BY DEF SoftInv, SoftState, StepDue
<1>2. /\ SoftState' /\ t' = t + 1 /\ t \in 0 .. 79 /\ build' = build /\ t < Len(words)
      /\ Len(words) \in Nat /\ \A j \in 0 .. 79 : j < Len(words) => Sched'[j] = Sched[j]
  BY <1>1, SoftOver
<1>3. /\ \A i \in 0 .. 79 : Here(i) \in 0 .. 79 /\ Here(i)' = Here(i)
      /\ \A j \in 0 .. 79 : j # t => Here(j) # Here(t)
  BY <1>1, <1>2, BuildType, AtPlace DEF Here
<1>4. word \in Word
  BY <1>1, <1>2, SchedWords DEF Words
<1>5. w' \in Words
  BY <1>1, <1>2, <1>3, <1>4 DEF Words
<1>6. ASSUME NEW i \in 0 .. 79, i < t' PROVE w'[Here(i)] = Sched'[i]
  <2>1. i = t \/ i < t
    BY <1>2, <1>6
  <2>2. Sched'[i] = Sched[i]
    <3>1. i < Len(words)
      BY <1>2, <2>1
    <3> HIDE DEF Sched
    <3> QED BY <1>2, <3>1
  <2>3. CASE i = t
    <3>1. w'[Here(t)] = word
      BY <1>1, <1>2, <1>3 DEF Words
    <3> HIDE DEF Sched
    <3> QED BY <2>2, <2>3, <3>1
  <2>4. CASE i < t
    <3>1. w[Here(i)] = Sched[i]
      BY <2>4 DEF SoftInv
    <3>2. i # t
      BY <1>2, <2>4
    <3>3. w'[Here(i)] = w[Here(i)]
      BY <1>1, <1>3, <3>2 DEF Words
    <3> HIDE DEF Sched
    <3> QED BY <2>2, <3>1, <3>3
  <2> QED BY <2>1, <2>3, <2>4
<1>7. ~Sse2'
  BY <1>2 DEF Sse2
<1>8. \A i \in 0 .. 79 : i < t' => w'[Here(i)'] = Sched'[i]
  BY <1>3, <1>6
<1> HIDE DEF Sched
<1> QED BY <1>2, <1>5, <1>7, <1>8 DEF SoftInv, Here

LEMMA SoftRunLoad ==
  ASSUME SoftInv, RunLoad
  PROVE  SoftInv'
<1>1. /\ StepDue /\ ~Sse2 /\ t < 16 /\ RunOver(input.m[t + 1])
      /\ w' = [w EXCEPT ![Here(t)] = input.m[t + 1]]
  BY DEF RunLoad
<1>2. t \in 0 .. 80 /\ School
  BY DEF SoftInv, SoftState
<1>3. input.m[t + 1] = Sched[t]
  <2>1. t \in 0 .. 15
    BY <1>1, <1>2
  <2> QED BY <1>2, <2>1, SchedWords
<1> HIDE DEF Sched
<1> QED BY <1>1, <1>3, SoftOverStored

LEMMA SoftRunExpand ==
  ASSUME SoftInv, RunExpand
  PROVE  SoftInv'
<1>1. /\ StepDue /\ ~Sse2 /\ t >= 16 /\ RunOver(Expanded(t))
      /\ w' = [w EXCEPT ![Here(t)] = Expanded(t)]
  BY DEF RunExpand
<1>2. /\ t \in 0 .. 80 /\ t < 80 /\ School
      /\ 16 + t <= Len(words) \/ 80 <= Len(words)
  BY <1>1 DEF SoftInv, SoftState, StepDue
<1>3. t \in 16 .. 79 /\ t < Len(words)
  <2>1. Len(words) \in Nat
    BY <1>2, SchedWords
  <2> QED BY <1>1, <1>2, <2>1
<1>4. Sched[t] = Rol(1, FourXor(Sched[t - 3], Sched[t - 8], Sched[t - 14], Sched[t - 16]))
  <2>1. Recurs(Sched, t)
    BY <1>2, <1>3, SchedWords
  <2> HIDE DEF Sched
  <2> QED BY <2>1 DEF Recurs
<1>5. /\ w[Here(t - 3)] = Sched[t - 3] /\ w[Here(t - 8)] = Sched[t - 8]
      /\ w[Here(t - 14)] = Sched[t - 14] /\ w[Here(t - 16)] = Sched[t - 16]
  <2>1. \A i \in 0 .. 79 : i < t => w[Here(i)] = Sched[i]
    BY <1>1 DEF SoftInv
  <2>2. /\ t - 3 \in 0 .. 79 /\ t - 8 \in 0 .. 79 /\ t - 14 \in 0 .. 79 /\ t - 16 \in 0 .. 79
        /\ t - 3 < t /\ t - 8 < t /\ t - 14 < t /\ t - 16 < t
    BY <1>3
  <2> HIDE DEF Sched
  <2> QED BY <2>1, <2>2
<1> HIDE DEF Sched
<1>6. Expanded(t) = Sched[t]
  BY <1>4, <1>5 DEF Expanded, FourXor
<1> QED BY <1>1, <1>6, SoftOverStored

(* The group sse2 computes is that of the schedule.                        *)
LEMMA GroupOfSchedule ==
  ASSUME NEW y \in Words, NEW k \in 0 .. 19,
         input.m \in [1 .. 16 -> Word],
         \A i \in 0 .. 15 : y[i] = input.m[i + 1],
         k >= 4 => \A j \in 16 .. 4 * k + 3 : Recurs(y, j),
         \A j \in 0 .. 19 : j < k => v[j] = Backward(y, 4 * j)
  PROVE  GroupWords(k) = Backward(y, 4 * k)
<1> DEFINE i == 4 * k
<1>i. i = 4 * k
  OBVIOUS
<1>1. CASE k < 4
  <2>1. /\ i \in 0 .. 15 /\ i + 1 \in 0 .. 15 /\ i + 2 \in 0 .. 15 /\ i + 3 \in 0 .. 15
        /\ (i + 1) + 1 = i + 2 /\ (i + 2) + 1 = i + 3 /\ (i + 3) + 1 = i + 4
    BY <1>1
  <2> HIDE DEF i
  <2>2. /\ y[i] = input.m[i + 1] /\ y[i + 1] = input.m[i + 2]
        /\ y[i + 2] = input.m[i + 3] /\ y[i + 3] = input.m[i + 4]
    BY <2>1
  <2>3. GroupWords(k) = <<input.m[i + 4], input.m[i + 3], input.m[i + 2], input.m[i + 1]>>
    BY <1>1, <1>i DEF GroupWords, Reversed
  <2> QED BY <1>i, <2>2, <2>3 DEF Backward
<1>2. CASE k >= 4
  <2>1. i \in 16 .. 76 /\ \A j \in 16 .. i + 3 : Recurs(y, j)
    BY <1>2
  <2>2. /\ 4 * (k - 4) = i - 16 /\ 4 * (k - 3) = i - 12 /\ 4 * (k - 2) = i - 8 /\ 4 * (k - 1) = i - 4
        /\ k - 4 \in 0 .. 19 /\ k - 3 \in 0 .. 19 /\ k - 2 \in 0 .. 19 /\ k - 1 \in 0 .. 19
        /\ k - 4 < k /\ k - 3 < k /\ k - 2 < k /\ k - 1 < k
    BY <1>2
  <2>3. /\ v[k - 4] = Backward(y, 4 * (k - 4)) /\ v[k - 3] = Backward(y, 4 * (k - 3))
        /\ v[k - 2] = Backward(y, 4 * (k - 2)) /\ v[k - 1] = Backward(y, 4 * (k - 1))
    BY <2>2
  <2>4. CASE k < 8
    <3> HIDE DEF i
    <3>1. expand16(Backward(y, i - 16), Backward(y, i - 12), Backward(y, i - 8), Backward(y, i - 4))
            = Backward(y, i)
      BY <2>1, Expand16Group
    <3>2. GroupWords(k) = expand16(v[k - 4], v[k - 3], v[k - 2], v[k - 1])
      BY <1>2, <2>4 DEF GroupWords
    <3> QED BY <1>i, <2>2, <2>3, <3>1, <3>2
  <2>5. CASE k >= 8
    <3>1. /\ i \in 32 .. 76 /\ 4 * (k - 8) = i - 32 /\ 4 * (k - 7) = i - 28
          /\ k - 8 \in 0 .. 19 /\ k - 7 \in 0 .. 19 /\ k - 8 < k /\ k - 7 < k
      BY <2>5
    <3>2. v[k - 8] = Backward(y, 4 * (k - 8)) /\ v[k - 7] = Backward(y, 4 * (k - 7))
      BY <3>1
    <3> HIDE DEF i
    <3>3. expand_rol2(Backward(y, i - 32), Backward(y, i - 28), Backward(y, i - 16),
                      Backward(y, i - 8), Backward(y, i - 4)) = Backward(y, i)
      BY <2>1, <3>1, ExpandRol2Group
    <3>4. GroupWords(k) = expand_rol2(v[k - 8], v[k - 7], v[k - 4], v[k - 2], v[k - 1])
      BY <1>2, <2>5 DEF GroupWords
    <3> QED BY <1>i, <2>2, <2>3, <3>1, <3>2, <3>3, <3>4
  <2> QED BY <2>4, <2>5
<1> QED BY <1>1, <1>2

LEMMA SoftRunGroup ==
  ASSUME SoftInv, RunGroup
  PROVE  SoftInv'
<1>1. /\ GroupDue /\ v' = [v EXCEPT ![groups] = GroupWords(groups)]
      /\ w' = Spilled(TRUE, w, 4 * groups, GroupWords(groups))
      /\ groups' = groups + 1
      /\ IF groups < 4 THEN words' = words ELSE FourWordsOn
      /\ input' = input /\ build' = build /\ s' = s /\ t' = t /\ added' = added
      /\ state_58' = state_58 /\ state_65' = state_65 /\ ihv' = ihv /\ trail' = trail
  BY DEF RunGroup, stored
<1>2. SoftState /\ SoftGroups /\ w \in Words /\ Sse2 /\ t < 80 /\ groups < GroupsBefore(t)
  BY <1>1 DEF SoftInv, GroupDue
<1>3. /\ School /\ build \in Builds /\ t \in 0 .. 80 /\ Len(trail) = t + 1 /\ added \in BOOLEAN
      /\ 16 + t <= Len(words) \/ 80 <= Len(words)
      /\ added => t = 80
      /\ s = StateAt(t)
  BY <1>2 DEF SoftState
<1>4. groups \in 0 .. 20 /\ DOMAIN v = 0 .. 19 /\ 4 * groups <= Len(words)
  BY <1>2 DEF SoftGroups
<1>5. groups \in 0 .. 19
  <2>1. GroupsBefore(t) \in Nat /\ GroupsBefore(t) <= 20
    <3>1. t \in 0 .. 79
      BY <1>2, <1>3
    <3> QED BY <3>1, GroupsBeforeBounds
  <2> QED BY <1>2, <1>4, <2>1
<1> PICK k \in 0 .. 19 : k = groups
  BY <1>5
<1>l. Len(words) \in Nat /\ Len(words) <= 80 /\ 16 <= Len(words)
  BY <1>3, SchedWords
<1>6. /\ School' /\ Sched' \in Words /\ Len(words') \in Nat /\ Len(words) <= Len(words')
      /\ \A j \in 0 .. 79 : j < Len(words) => Sched'[j] = Sched[j]
      /\ \A j \in 0 .. 15 : Sched'[j] = input.m[j + 1]
      /\ k >= 4 => \A j \in 16 .. 4 * k + 3 : Recurs(Sched', j)
      /\ \A j : StateAt(j)' = StateAt(j)
      /\ 4 * k + 4 <= Len(words')
  <2>1. CASE groups < 4
    <3>1. words' = words /\ input' = input /\ trail' = trail
      BY <1>1, <2>1
    <3>2. School' /\ Sched' = Sched /\ \A j : StateAt(j)' = StateAt(j)
      BY <1>3, <3>1, SchoolStays
    <3>3. ~(k >= 4) /\ 4 * k + 4 <= Len(words')
      BY <1>l, <2>1, <3>1
    <3>4. Sched \in Words /\ \A j \in 0 .. 15 : Sched[j] = input.m[j + 1]
      BY <1>3, SchedWords
    <3>5. Len(words') \in Nat /\ Len(words) <= Len(words')
      BY <1>l, <3>1
    <3> HIDE DEF Sched
    <3> QED BY <3>2, <3>3, <3>4, <3>5
  <2>2. CASE groups >= 4
    <3>1. FourWordsOn /\ input' = input /\ trail' = trail
      BY <1>1, <1>5, <2>2
    <3>2. /\ School' /\ Sched' \in Words /\ Len(words') \in Nat /\ Len(words) <= Len(words')
          /\ Len(words') = IF Len(words) <= 76 THEN Len(words) + 4 ELSE 80
          /\ \A j \in 0 .. 79 : j < Len(words) => Sched'[j] = Sched[j]
          /\ \A j \in 16 .. 79 : j < Len(words') => Recurs(Sched', j)
          /\ \A j : StateAt(j)' = StateAt(j)
      BY <1>3, <3>1, SchoolWords
    <3>n. /\ Len(words') \in Nat
          /\ Len(words') = IF Len(words) <= 76 THEN Len(words) + 4 ELSE 80
      BY <3>2
    <3>3. 4 * k + 4 <= Len(words')
      <4>1. 4 * k <= Len(words) /\ 4 * k + 4 <= 80
        BY <1>4
      <4> QED BY <1>l, <3>n, <4>1
    <3>4. ASSUME NEW j \in 16 .. 4 * k + 3 PROVE Recurs(Sched', j)
      <4>1. j \in 16 .. 79 /\ j < Len(words')
        BY <3>n, <3>3
      <4> QED BY <3>2, <4>1
    <3>5. \A j \in 0 .. 15 : Sched'[j] = input.m[j + 1]
      <4>1. \A j \in 0 .. 15 : Sched[j] = input.m[j + 1]
        BY <1>3, SchedWords
      <4>2. \A j \in 0 .. 15 : j \in 0 .. 79 /\ j < Len(words)
        BY <1>l
      <4> HIDE DEF Sched
      <4> QED BY <3>2, <4>1, <4>2
    <3> HIDE DEF Sched
    <3> QED BY <3>2, <3>3, <3>4, <3>5
  <2> QED BY <1>5, <2>1, <2>2
<1> DEFINE y == Sched'
<1>y. /\ y = Sched' /\ y \in Words
      /\ \A j \in 0 .. 79 : j < Len(words) => y[j] = Sched[j]
      /\ \A j \in 0 .. 15 : y[j] = input.m[j + 1]
      /\ k >= 4 => \A j \in 16 .. 4 * k + 3 : Recurs(y, j)
  BY <1>6
<1> HIDE DEF y, Sched
<1>7. ASSUME NEW j \in 0 .. 19, j < k PROVE v[j] = Backward(y, 4 * j)
  <2>1. v[j] = Backward(Sched, 4 * j)
    BY <1>2, <1>7 DEF SoftGroups
  <2>2. 4 * j + 4 <= Len(words)
    BY <1>l, <1>4, <1>7
  <2>3. Backward(y, 4 * j) = Backward(Sched, 4 * j)
    BY <1>y, <1>l, <2>2, BackwardKept
  <2> QED BY <2>1, <2>3
<1>8. GroupWords(k) = Backward(y, 4 * k)
  <2>1. input.m \in [1 .. 16 -> Word]
    BY <1>3, InputType DEF School
  <2> QED BY <1>y, <1>7, <2>1, GroupOfSchedule
<1>9. /\ w' \in Words
      /\ \A i \in 0 .. 79 : w'[79 - i] = IF i >= 4 * k /\ i < 4 * k + 4 THEN y[i] ELSE w[79 - i]
  <2>1. w' = Spilled(TRUE, w, 4 * k, Backward(y, 4 * k))
    BY <1>1, <1>8
  <2>2. w \in Words /\ y \in Words
    BY <1>2, <1>y
  <2>3. /\ Spilled(TRUE, w, 4 * k, Backward(y, 4 * k)) \in Words
        /\ \A i \in 0 .. 79 :
             Spilled(TRUE, w, 4 * k, Backward(y, 4 * k))[79 - i]
               = IF i >= 4 * k /\ i < 4 * k + 4 THEN y[i] ELSE w[79 - i]
    BY <2>2, SpillBackward
  <2> QED BY <2>1, <2>3
<1>10. ASSUME NEW i \in 0 .. 79, i < 4 * k + 4 PROVE w'[79 - i] = y[i]
  <2>1. CASE i >= 4 * k
    BY <1>9, <1>10, <2>1
  <2>2. CASE i < 4 * k
    <3>1. w[79 - i] = Sched[i]
      BY <1>2, <2>2 DEF SoftGroups
    <3>2. i < Len(words)
      BY <1>l, <1>4, <2>2
    <3>3. y[i] = Sched[i]
      BY <1>y, <3>2
    <3>4. ~(i >= 4 * k)
      BY <2>2
    <3> QED BY <1>9, <3>1, <3>3, <3>4
  <2> QED BY <2>1, <2>2
<1>11. ASSUME NEW j \in 0 .. 19, j < k + 1 PROVE v'[j] = Backward(y, 4 * j)
  <2>1. CASE j = k
    <3>1. v'[j] = GroupWords(k)
      BY <1>1, <1>4, <2>1
    <3> QED BY <1>8, <2>1, <3>1
  <2>2. CASE j # k
    <3>1. v'[j] = v[j] /\ j < k
      BY <1>1, <1>4, <1>11, <2>2
    <3> QED BY <1>7, <3>1
  <2> QED BY <2>1, <2>2
<1>12. SoftGroups'
  <2>1. groups' = k + 1 /\ groups' \in 0 .. 20 /\ 4 * groups' <= Len(words')
    BY <1>1, <1>6
  <2>2. DOMAIN v' = 0 .. 19
    BY <1>1, <1>4
  <2>3. t' > 0 => groups' >= GroupsBefore(t' - 1)
    <3>1. ASSUME t > 0 PROVE GroupsBefore(t - 1) \in Nat /\ groups >= GroupsBefore(t - 1)
      <4>1. t - 1 \in 0 .. 79
        BY <1>3, <3>1
      <4> QED BY <1>2, <3>1, <4>1, GroupsBeforeBounds DEF SoftGroups
    <3> QED BY <1>1, <1>4, <3>1
  <2>4. 4 * (k + 1) = 4 * k + 4
    OBVIOUS
  <2>5. \A j \in 0 .. 19 : j < groups' => v'[j] = Backward(Sched', 4 * j)
    BY <1>y, <1>11, <2>1
  <2>6. \A i \in 0 .. 79 : i < 4 * groups' => w'[79 - i] = Sched'[i]
    BY <1>y, <1>10, <2>1, <2>4
  <2> QED BY <2>1, <2>2, <2>3, <2>5, <2>6 DEF SoftGroups, GroupsBefore
<1>13. SoftState'
  <2>1. 16 + t <= Len(words') \/ 80 <= Len(words')
    <3>1. Len(words') \in Nat /\ Len(words) <= Len(words') /\ t \in Nat
      BY <1>3, <1>6
    <3>2. 16 + t <= Len(words) \/ 80 <= Len(words)
      BY <1>3
    <3> QED BY <1>l, <3>1, <3>2
  <2>2. s' = StateAt(t)' /\ state_58' = state_58 /\ StateAt(58)' = StateAt(58)
    BY <1>1, <1>3 DEF StateAt
  <2>3. StateAt(65)' = StateAt(65) /\ StateAt(80)' = StateAt(80)
    BY <1>6
  <2>4. /\ t > 58 => state_58 = StateAt(58)
        /\ t > 65 => state_65 = StateAt(65)
        /\ ihv = IF added THEN Sum(input.ihv, StateAt(80)) ELSE input.ihv
    BY <1>2 DEF SoftState
  <2>5. ~added
    BY <1>2, <1>3
  <2>6. ihv' = input'.ihv /\ ~added' /\ added' \in BOOLEAN
    <3>1. ihv' = ihv /\ input' = input /\ added' = added
      BY <1>1
    <3> QED BY <1>3, <2>4, <2>5, <3>1
  <2>7. Len(trail') = t' + 1 /\ t' \in 0 .. 80 /\ (16 + t' <= Len(words') \/ 80 <= Len(words'))
    BY <1>1, <1>3, <2>1
  <2>8. /\ t' > 58 => state_58' = StateAt(58)'
        /\ t' > 65 => state_65' = StateAt(65)'
    BY <1>1, <2>2, <2>3, <2>4
  <2> QED BY <1>1, <1>3, <1>6, <2>2, <2>6, <2>7, <2>8 DEF SoftState
<1>14. Sse2'
  BY <1>1, <1>2 DEF Sse2
<1> QED BY <1>9, <1>12, <1>13, <1>14 DEF SoftInv

LEMMA SoftRunAdd ==
  ASSUME SoftInv, RunAdd
  PROVE  SoftInv'
<1>1. /\ t = 80 /\ ~added /\ ihv' = Sum(ihv, s) /\ added' = TRUE
      /\ input' = input /\ build' = build /\ groups' = groups /\ s' = s /\ t' = t
      /\ v' = v /\ w' = w /\ state_58' = state_58 /\ state_65' = state_65
      /\ words' = words /\ trail' = trail
  BY DEF RunAdd, school
<1>2. SoftState
  BY DEF SoftInv
<1>3. /\ School' /\ Sched' = Sched /\ \A i : StateAt(i)' = StateAt(i)
  BY <1>1, <1>2, SchoolStays DEF SoftState
<1>4. s' = StateAt(t)' /\ s = StateAt(80) /\ ihv = input.ihv
  BY <1>1, <1>2 DEF SoftState, StateAt
<1>6. SoftState'
  BY <1>1, <1>2, <1>3, <1>4 DEF SoftState, Sum
<1>7. Sse2 => SoftGroups'
  <2> HIDE DEF Sched
  <2> QED BY <1>1, <1>3 DEF SoftInv, SoftGroups, GroupsBefore
<1>8. ~Sse2 => \A i \in 0 .. 79 : i < t' => w'[Here(i)'] = Sched'[i]
  <2> HIDE DEF Sched
  <2> QED BY <1>1, <1>3 DEF SoftInv, Here
<1>9. Sse2' <=> Sse2
  BY <1>1 DEF Sse2
<1>10. w' \in Words
  BY <1>1 DEF SoftInv
<1> HIDE DEF Sched
<1> QED BY <1>6, <1>7, <1>8, <1>9, <1>10 DEF SoftInv

LEMMA SoftStep ==
  ASSUME SoftInv, Next
  PROVE  SoftInv'
BY SoftRunBlock, SoftRun, SoftRunLoad, SoftRunExpand, SoftRunGroup, SoftRunAdd DEF Next

(* What the runs check of the portable compressions.                       *)
LEMMA SoftMeets ==
  ASSUME SoftInv
  PROVE  EachStepHasItsWord /\ LeavesDigestAndStates
<1>1. EachStepHasItsWord
  BY DEF SoftInv, SoftState, EachStepHasItsWord
<1>2. ASSUME added PROVE LeavesDigestAndStates
  <2>1. /\ School /\ build \in Builds /\ t = 80 /\ Len(trail) = t + 1
        /\ 16 + t <= Len(words) \/ 80 <= Len(words)
        /\ t > 58 => state_58 = StateAt(58)
        /\ t > 65 => state_65 = StateAt(65)
        /\ ihv = Sum(input.ihv, StateAt(80))
    BY <1>2 DEF SoftInv, SoftState
  <2>2. Complete
    <3>1. Len(words) \in Nat /\ Len(words) <= 80 /\ Len(trail) > 80
      BY <2>1, SchedWords
    <3> QED BY <2>1, <3>1 DEF Complete
  <2>3. \A i \in 0 .. 79 : Sched[i] = W(i)
    BY <2>1, <2>2, CompleteStates
  <2>4. \A i \in 0 .. 79 : i < t
    BY <2>1
  <2>5. ASSUME NEW i \in 0 .. 79 PROVE w[Here(i)] = Sched[i]
    <3>1. CASE Sse2
      <4>1. /\ groups \in 0 .. 20
            /\ t > 0 => groups >= GroupsBefore(t - 1)
        BY <3>1 DEF SoftInv, SoftGroups
      <4>2. \A j \in 0 .. 79 : j < 4 * groups => w[79 - j] = Sched[j]
        BY <3>1 DEF SoftInv, SoftGroups
      <4>3. GroupsBefore(t - 1) = 20
        <5>1. t - 1 = 79 /\ 79 \in 0 .. 79
          BY <2>1
        <5> QED BY <5>1, GroupsBeforeBounds
      <4>4. i < 4 * groups
        <5>1. groups >= 20
          BY <2>1, <4>1, <4>3
        <5> QED BY <4>1, <5>1
      <4>5. Here(i) = 79 - i
        BY <2>1, <3>1, BuildType DEF Here, At
      <4> HIDE DEF Sched
      <4> QED BY <4>2, <4>4, <4>5
    <3>2. CASE ~Sse2
      <4> HIDE DEF Sched
      <4> QED BY <2>4, <3>2 DEF SoftInv
    <3> QED BY <3>1, <3>2
  <2>6. state_58 = StateAt(58) /\ state_65 = StateAt(65)
    BY <2>1
  <2> HIDE DEF Sched
  <2> QED BY <2>1, <2>3, <2>5, <2>6 DEF LeavesDigestAndStates
<1> QED BY <1>1, <1>2 DEF LeavesDigestAndStates

-----------------------------------------------------------------------------
(* Whichever runs.                                                         *)
PipeInv ==
  /\ Running("sha_ni") => NiInv
  /\ Running("armv8") => ArmInv
  /\ Running("scalar") \/ Running("sse2") => SoftInv

LEMMA AllStays ==
  ASSUME UNCHANGED all
  PROVE  /\ input' = input /\ build' = build /\ groups' = groups /\ s' = s /\ t' = t /\ added' = added
         /\ v' = v /\ w' = w /\ state_58' = state_58 /\ state_65' = state_65 /\ ihv' = ihv
         /\ partner' = partner /\ words' = words /\ trail' = trail
         /\ phase' = phase /\ g' = g /\ abcd' = abcd /\ at_60' = at_60 /\ at_64' = at_64
         /\ state' = state /\ at' = at /\ attack' = attack
         /\ e0' = e0 /\ e1' = e1 /\ e_in' = e_in /\ held' = held
         /\ e' = e /\ tmp' = tmp /\ msg' = msg
BY DEF all, vars, stored, school, both, ni, arm

LEMMA NiStutters ==
  ASSUME NiInv, UNCHANGED all
  PROVE  NiInv'
<1>1. /\ School => School'
      /\ Sched' = Sched /\ \A i : StateAt(i)' = StateAt(i)
      /\ Complete => Complete'
  BY AllStays, SchoolStays DEF School, Sched, StateAt, Complete
<1>2. /\ NiHeld(60)' = NiHeld(60) /\ NiHeld(64)' = NiHeld(64)
      /\ Ni!LiveRegister' = Ni!LiveRegister /\ StateAt(4 * g)' = StateAt(4 * g)
      /\ Boundary' = Boundary /\ StateAt(58)' = StateAt(58) /\ StateAt(80)' = StateAt(80)
  BY AllStays DEF NiHeld, Sched, StateAt, Ni!LiveRegister, Boundary
<1> HIDE DEF Sched
<1>3. NiCompress => NiCompress'
  BY <1>1, <1>2, AllStays DEF NiCompress, AtGroup, StateAt
<1>4. NiAfter => NiAfter'
  BY <1>1, <1>2, AllStays DEF NiAfter
<1>5. NiRun => NiRun'
  BY <1>1, <1>2, AllStays DEF NiRun
<1> QED BY <1>1, <1>2, <1>3, <1>4, <1>5, AllStays DEF NiInv

LEMMA ArmStutters ==
  ASSUME ArmInv, UNCHANGED all
  PROVE  ArmInv'
<1>1. /\ School => School'
      /\ Sched' = Sched /\ \A i : StateAt(i)' = StateAt(i)
      /\ Complete => Complete'
  BY AllStays, SchoolStays DEF School, Sched, StateAt, Complete
<1>2. /\ StateAt(4 * g)' = StateAt(4 * g) /\ Boundary' = Boundary
      /\ StateAt(58)' = StateAt(58) /\ StateAt(80)' = StateAt(80)
      /\ StateAt(60)' = StateAt(60) /\ StateAt(64)' = StateAt(64) /\ StateAt(65)' = StateAt(65)
  BY AllStays DEF StateAt, Boundary
<1>3. ArmCompress => ArmCompress'
  <2>1. ArmMessage(msg, g, Sched)' = ArmMessage(msg, g, Sched)
    BY <1>1, AllStays DEF ArmMessage
  <2> HIDE DEF Sched
  <2> QED BY <1>1, <1>2, <2>1, AllStays DEF ArmCompress, AtGroup, StateAt
<1> HIDE DEF Sched
<1>4. ArmAfter => ArmAfter'
  BY <1>1, <1>2, AllStays DEF ArmAfter
<1>5. ArmRun => ArmRun'
  BY <1>1, <1>2, AllStays DEF ArmRun
<1> QED BY <1>1, <1>2, <1>3, <1>4, <1>5, AllStays DEF ArmInv

LEMMA SoftStutters ==
  ASSUME SoftInv, UNCHANGED all
  PROVE  SoftInv'
<1>1. /\ School => School'
      /\ Sched' = Sched /\ \A i : StateAt(i)' = StateAt(i)
  BY AllStays, SchoolStays DEF School, Sched, StateAt
<1>2. StateAt(t)' = StateAt(t) /\ \A i : Here(i)' = Here(i)
  BY AllStays DEF StateAt, Here
<1>3. Sse2' <=> Sse2
  BY AllStays DEF Sse2
<1> HIDE DEF Sched
<1>4. SoftState => SoftState'
  BY <1>1, <1>2, AllStays DEF SoftState
<1>5. SoftGroups => SoftGroups'
  BY <1>1, AllStays DEF SoftGroups, GroupsBefore
<1> QED BY <1>1, <1>2, <1>3, <1>4, <1>5, AllStays DEF SoftInv, Here

LEMMA PipeStart ==
  AnyInit => PipeInv
<1>1. CASE NiInit
  <2>1. build.backend = "sha_ni" /\ NiInv
    BY <1>1, NiStart DEF NiInit
  <2> QED BY <2>1 DEF PipeInv, Running
<1>2. CASE ArmInit
  <2>1. build.backend = "armv8" /\ ArmInv
    BY <1>2, ArmStart DEF ArmInit
  <2> QED BY <2>1 DEF PipeInv, Running
<1>3. CASE SoftInit
  <2>1. build \in Builds /\ SoftInv
    BY <1>3, SoftStart DEF SoftInit, Init
  <2>2. build.backend \in {"scalar", "sse2"}
    BY <2>1, BuildType
  <2> QED BY <2>1, <2>2 DEF PipeInv, Running
<1> QED BY <1>1, <1>2, <1>3 DEF AnyInit

LEMMA SoftKeepsBuild ==
  ASSUME Next
  PROVE  build' = build
BY DEF Next, RunBlock, Run, RunLoad, RunExpand, RunGroup, RunAdd, RunOver

LEMMA PipeStep ==
  PipeInv /\ [AnyNext]_all => PipeInv'
<1> SUFFICES ASSUME PipeInv, [AnyNext]_all PROVE PipeInv'
  OBVIOUS
<1>1. CASE NiNext
  <2>1. build.backend = "sha_ni" /\ build' = build /\ Ni!Next /\ NiInv
    BY <1>1 DEF NiNext, Running, PipeInv
  <2>2. NiInv'
    BY <2>1, NiStep
  <2> QED BY <2>1, <2>2 DEF PipeInv, Running
<1>2. CASE ArmNext
  <2>1. build.backend = "armv8" /\ build' = build /\ Arm!Next /\ ArmInv
    BY <1>2 DEF ArmNext, Running, PipeInv
  <2>2. ArmInv'
    BY <2>1, ArmStep
  <2> QED BY <2>1, <2>2 DEF PipeInv, Running
<1>3. CASE SoftNext
  <2>1. build.backend \in {"scalar", "sse2"} /\ Next /\ SoftInv
    BY <1>3 DEF SoftNext, Running, PipeInv
  <2>2. SoftInv' /\ build' = build
    BY <2>1, SoftStep, SoftKeepsBuild
  <2> QED BY <2>1, <2>2 DEF PipeInv, Running
<1>4. CASE UNCHANGED all
  <2>1. build' = build
    BY <1>4, AllStays
  <2>2. /\ NiInv => NiInv'
        /\ ArmInv => ArmInv'
        /\ SoftInv => SoftInv'
    BY <1>4, NiStutters, ArmStutters, SoftStutters
  <2> QED BY <2>1, <2>2 DEF PipeInv, Running
<1> QED BY <1>1, <1>2, <1>3, <1>4 DEF AnyNext

LEMMA PipeMeets ==
  PipeInv => RegistersSpellState /\ EveryStepHasItsWord /\ AllLeaveTheSame /\ AnswersForPartner
BY NiMeets, ArmMeets, SoftMeets
   DEF PipeInv, RegistersSpellState, EveryStepHasItsWord, AllLeaveTheSame, AnswersForPartner

LEMMA PipeAlways == AnySpec => []PipeInv
BY PipeStart, PipeStep, PTL DEF AnySpec

(* Between any two groups, and however the fifth word is held, the         *)
(* registers of SHA-NI and of ARMv8 spell the state before the next step   *)
(* (rounds!, group!).                                                      *)
THEOREM RegistersAlwaysSpellState == AnySpec => []RegistersSpellState
BY PipeAlways, PipeMeets, PTL

(* On every build, whatever the array held, a word is at its step's place  *)
(* once it is stored and not before, and no step runs on another           *)
(* (compress_spill of each backend, spill).                                *)
THEOREM StepsAlwaysHaveTheirWord == AnySpec => []EveryStepHasItsWord
BY PipeAlways, PipeMeets, PTL

(* Whichever backend runs, for any block and chaining value, the digest,   *)
(* the states at steps 58 and 65 and the schedule it leaves are those of   *)
(* the schoolbook compression (compress_spill, ensure_states).             *)
THEOREM BackendsLeaveTheSame == AnySpec => []AllLeaveTheSame
BY PipeAlways, PipeMeets, PTL

(* A candidate's recompression by groups finds an attack exactly when the  *)
(* partner's run by single steps, out from the stored state and round to   *)
(* it, meets the partner's state there (recompress).                       *)
THEOREM RecompressionAnswersForPartner == AnySpec => []AnswersForPartner
BY PipeAlways, PipeMeets, PTL
=============================================================================
