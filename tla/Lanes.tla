------------------------------- MODULE Lanes -------------------------------
(***************************************************************************)
(* Four words at a time: the vectors the backends of src/block/backend/    *)
(* hold their groups in, the instructions they run on them, and where a    *)
(* group goes in memory (Schedule, src/lib.rs).                            *)
(*                                                                         *)
(* A vector is <<lane 0, ..., lane 3>>, lane 0 being the one at the lowest *)
(* address.  An instruction is what the vendor's manual says it is.        *)
(***************************************************************************)
EXTENDS Steps

CONSTANTS
  Zero,        (* the word 0                                                *)
  BitsOf(_)    (* which bits of a word are set                              *)

ASSUME ZeroAssumption ==
  Zero \in Word /\ \A x \in Word : Plus(Zero, x) = x /\ Xor(x, Zero) = x

(* The hardware adds the words of a step in another order than the rounds, *)
(* and its two recurrences for the schedule are the same word only because *)
(* Xor goes bit by bit and a rotation moves bits.                          *)
ASSUME PlusAssumption ==
  \A x, y \in Word :
    /\ Plus(x, y) = Plus(y, x)
    /\ \A z \in Word : Plus(x, Plus(y, z)) = Plus(Plus(x, y), z)

ASSUME XorAssumption ==
  /\ \A x, y \in Word :
       /\ BitsOf(Xor(x, y)) = (BitsOf(x) \ BitsOf(y)) \cup (BitsOf(y) \ BitsOf(x))
       /\ BitsOf(x) = BitsOf(y) => x = y
       /\ Rol(1, Xor(x, y)) = Xor(Rol(1, x), Rol(1, y))
  /\ \A x \in Word : Rol(2, x) = Rol(1, Rol(1, x))

Vector == Word \X Word \X Word \X Word

Lanewise(Op(_, _), x, y) ==
  <<Op(x[1], y[1]), Op(x[2], y[2]), Op(x[3], y[3]), Op(x[4], y[4])>>

XorAll(x, y) == Lanewise(Xor, x, y)
PlusAll(x, y) == Lanewise(Plus, x, y)
MinusAll(x, y) == Lanewise(Minus, x, y)
RolAll(n, x) == <<Rol(n, x[1]), Rol(n, x[2]), Rol(n, x[3]), Rol(n, x[4])>>

(* _mm_shuffle_epi32 by REVERSE.                                           *)
Reversed(x) == <<x[4], x[3], x[2], x[1]>>

(* alignr8: the top two words of lo under the bottom two of hi.            *)
alignr8(hi, lo) == <<lo[3], lo[4], hi[1], hi[2]>>

(* _mm_slli_si128 by four bytes, _mm_srli_si128 by twelve.                 *)
UpOneLane(x) == <<Zero, x[1], x[2], x[3]>>
TopToBottom(x) == <<x[4], Zero, Zero, Zero>>

Zeros == <<Zero, Zero, Zero, Zero>>

-----------------------------------------------------------------------------
(* Four rounds of a quarter from (A, B, C, D), where the first word comes  *)
(* with E added to it.                                                     *)
FourRounds(quarter, a, b, c, d, we, w1, w2, w3) ==
  LET t == 20 * quarter
      first == <<Added(quarter, a, b, c, d, we), a, Rol(30, b), c, d>>
  IN Step(t, Step(t, Step(t, first, w1), w2), w3)

(* SHA-NI.  A, the first word, is in the top lane.                         *)
sha1rnds4(abcd, we, quarter) ==
  LET s == FourRounds(quarter, abcd[4], abcd[3], abcd[2], abcd[1],
                      we[4], we[3], we[2], we[1])
  IN <<s[4], s[3], s[2], s[1]>>

sha1nexte(abcd, w) == <<w[1], w[2], w[3], Plus(w[4], Rol(30, abcd[4]))>>

sha1msg1(x, y) == <<Xor(x[1], y[3]), Xor(x[2], y[4]), Xor(x[3], x[1]), Xor(x[4], x[2])>>

sha1msg2(x, y) ==
  LET w16 == Rol(1, Xor(x[4], y[3]))
  IN <<Rol(1, Xor(x[1], w16)), Rol(1, Xor(x[2], y[1])), Rol(1, Xor(x[3], y[2])), w16>>

(* ARMv8.  A is in the bottom lane, and the constant comes with the words; *)
(* the quarter stands for which of vsha1c, vsha1p and vsha1m it is.        *)
vsha1(abcd, e, wk, quarter) ==
  LET k == K[quarter]
      s == FourRounds(quarter, abcd[1], abcd[2], abcd[3], abcd[4],
                      Plus(Minus(wk[1], k), e), Minus(wk[2], k),
                      Minus(wk[3], k), Minus(wk[4], k))
  IN <<s[1], s[2], s[3], s[4]>>

vsha1h(a) == Rol(30, a)

vsha1su0(w0, w4, w8) ==
  XorAll(XorAll(<<w0[3], w0[4], w4[1], w4[2]>>, w0), w8)

vsha1su1(x, w12) ==
  LET y == <<Xor(x[1], w12[2]), Xor(x[2], w12[3]), Xor(x[3], w12[4]), x[4]>>
  IN <<Rol(1, y[1]), Rol(1, y[2]), Rol(1, y[3]), Xor(Rol(1, y[4]), Rol(2, y[1]))>>

-----------------------------------------------------------------------------
(* The 80 words of a Schedule are an array that on x86 runs backwards.     *)
At(mirrored, t) == IF mirrored THEN 79 - t ELSE t


(* window_start: where the words of n steps from t on begin.               *)
WindowStart(mirrored, t, n) == IF mirrored THEN 80 - n - t ELSE t

(* spill and the loads that undo it: four words, stored as they are.       *)
Spilled(mirrored, array, t, x) ==
  LET start == WindowStart(mirrored, t, 4)
  IN [i \in 0 .. 79 |-> IF i \in start .. start + 3 THEN x[i - start + 1] ELSE array[i]]

Loaded(mirrored, array, t) ==
  LET start == WindowStart(mirrored, t, 4)
  IN <<array[start], array[start + 1], array[start + 2], array[start + 3]>>

(* expand_rol2: words from 32 on, by the recurrence applied twice.         *)
expand_rol2(v8, v7, v4, v2, v1) ==
  RolAll(2, XorAll(XorAll(XorAll(v8, v7), v4), alignr8(v2, v1)))
=============================================================================
