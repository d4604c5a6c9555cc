------------------------------- MODULE Steps -------------------------------
(***************************************************************************)
(* The SHA-1 step and its inverse (src/block/rounds.rs), over any words    *)
(* with the laws the code relies on.  A state is the tuple (A, B, C, D, E) *)
(* before a step: the code does not move the five words but renames them,  *)
(* which Rounds models.                                                    *)
(***************************************************************************)
EXTENDS Integers

CONSTANTS
  Word,          (* u32                                                     *)
  Plus(_, _),    (* wrapping_add                                            *)
  Minus(_, _),   (* wrapping_sub                                            *)
  Xor(_, _),
  And(_, _),
  Or(_, _),
  Rol(_, _),     (* x.rotate_left(n), as Rol(n, x)                          *)
  Ror(_, _),     (* x.rotate_right(n)                                       *)
  K              (* the round constants                                     *)

ASSUME WordAssumption ==
  /\ \A x, y \in Word :
       /\ {Plus(x, y), Minus(x, y), Xor(x, y), And(x, y), Or(x, y)} \subseteq Word
       /\ Minus(Plus(x, y), y) = x
       /\ Plus(Minus(x, y), y) = x
  /\ \A x \in Word, n \in {1, 2, 5, 30} :
       /\ {Rol(n, x), Ror(n, x)} \subseteq Word
       /\ Ror(n, Rol(n, x)) = x
       /\ Rol(n, Ror(n, x)) = x
  /\ K \in [0 .. 3 -> Word]

State == Word \X Word \X Word \X Word \X Word
Words == [0 .. 79 -> Word]

-----------------------------------------------------------------------------
ch(b, c, d) == Xor(d, And(b, Xor(c, d)))
parity(b, c, d) == Xor(Xor(b, c), d)
maj(b, c, d) == Or(And(b, c), And(d, Or(b, c)))

(* f(b, c, d) and K of a quarter of the 80 steps.                          *)
Term(quarter, b, c, d) ==
  LET f == CASE quarter = 0 -> ch(b, c, d)
             [] quarter = 2 -> maj(b, c, d)
             [] OTHER -> parity(b, c, d)
  IN Plus(f, K[quarter])

(* What a step adds to E.                                                  *)
Added(quarter, a, b, c, d, w) == Plus(Plus(Rol(5, a), Term(quarter, b, c, d)), w)

(* Step t with its schedule word w, and the step back.                     *)
Step(t, s, w) ==
  <<Plus(s[5], Added(t \div 20, s[1], s[2], s[3], s[4], w)),
    s[1], Rol(30, s[2]), s[3], s[4]>>

(* Mutants, here and in the modules above: each is the definition that     *)
(* follows with a plausible bug, and a run shows which property it breaks. *)
Unstep_RotatesLast(t, s, w) ==
  <<s[2], Ror(30, s[3]), s[4], s[5],
    Minus(s[1], Added(t \div 20, s[2], s[3], s[4], s[5], w))>>

(* unstep! "undoes the rotation first".                                    *)
Unstep(t, s, w) ==
  LET b == Ror(30, s[3])
  IN <<s[2], b, s[4], s[5],
       Minus(s[1], Added(t \div 20, s[2], b, s[4], s[5], w))>>

(* add, and the subtraction of the hardware backends' recompress.          *)
Sum(s, r) == <<Plus(s[1], r[1]), Plus(s[2], r[2]), Plus(s[3], r[3]),
               Plus(s[4], r[4]), Plus(s[5], r[5])>>

Difference(s, r) == <<Minus(s[1], r[1]), Minus(s[2], r[2]), Minus(s[3], r[3]),
                      Minus(s[4], r[4]), Minus(s[5], r[5])>>
=============================================================================
