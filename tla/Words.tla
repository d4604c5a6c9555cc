------------------------------- MODULE Words -------------------------------
(***************************************************************************)
(* Machine words for the runs: eight bits where the code has thirty-two,   *)
(* so that the rotations by 1, 2, 5 and 30 stay four different ones.       *)
(* Addition wraps as wrapping_add does.  The bitwise operators go through  *)
(* tables of four bits, which TLC computes once.                           *)
(***************************************************************************)
EXTENDS Integers

Size == 256
Bits == 8

Byte == 0 .. Size - 1

PlusByte(x, y) == (x + y) % Size
MinusByte(x, y) == (x - y) % Size

RolByte(n, x) ==
  LET k == n % Bits
  IN ((x * 2 ^ k) % Size) + (x \div 2 ^ (Bits - k))

RorByte(n, x) == RolByte(Bits - (n % Bits), x)

Table(Op(_, _)) ==
  [x, y \in 0 .. 15 |->
     Op(x % 2, y % 2) + (2 * Op((x \div 2) % 2, (y \div 2) % 2))
       + (4 * Op((x \div 4) % 2, (y \div 4) % 2))
       + (8 * Op(x \div 8, y \div 8))]

XorTable == LET Op(p, q) == (p + q) % 2 IN Table(Op)
AndTable == LET Op(p, q) == p * q IN Table(Op)
OrTable == LET Op(p, q) == (p + q + p * q) % 2 IN Table(Op)

XorByte(x, y) == (16 * XorTable[x \div 16, y \div 16]) + XorTable[x % 16, y % 16]
AndByte(x, y) == (16 * AndTable[x \div 16, y \div 16]) + AndTable[x % 16, y % 16]
OrByte(x, y) == (16 * OrTable[x \div 16, y \div 16]) + OrTable[x % 16, y % 16]

BitsByte(x) == { k \in 0 .. Bits - 1 : (x \div 2 ^ k) % 2 = 1 }

(* The round constants' low bytes.                                         *)
KBytes == [q \in 0 .. 3 |-> <<153, 161, 220, 214>>[q + 1]]

(* Bytes without a pattern, to build inputs from.                          *)
Scramble(seed, k) ==
  ((k * k * 37) + (k * (2 * seed + 1) * 11) + (seed * 89) + (k \div 7)) % Size
=============================================================================
