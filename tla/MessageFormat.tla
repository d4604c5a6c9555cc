--------------------------- MODULE MessageFormat ---------------------------
(***************************************************************************)
(* What SHA-1 hashes, and what a digest is, as terms.                      *)
(*                                                                         *)
(* A byte is a number below Radix (256 in the code), a block a function    *)
(* from 0 .. BlockSize - 1 (64), and the length field has LengthSize bytes *)
(* (8), so a length is a number modulo LenMod = Radix^LengthSize (2^64).   *)
(* The small instances keep those relations.                               *)
(*                                                                         *)
(* A chaining value is the sequence of compressions that made it, starting *)
(* from INITIAL_H as the empty sequence: two chaining values are equal     *)
(* exactly when the same blocks went in the same number of times.  So no   *)
(* property can rest on two different messages happening to collide.       *)
(***************************************************************************)
EXTENDS Integers, Sequences

CONSTANTS
  BlockSize,        (* BLOCK_SIZE, the bytes of a compression block         *)
  LengthSize,       (* the bytes of the length field that ends the padding  *)
  Radix,            (* how many values a byte has                           *)
  BitsPerByte,      (* bits in a byte: the code's `<< 3` multiplies by it   *)
  LenMod,           (* the length counter wraps here, 2^64 in the code      *)
  Attack(_, _, _)   (* whether block::compress, with the given settings,    *)
                    (* flags this block after this chaining value           *)

ASSUME SizesAssumption ==
  /\ BlockSize \in Nat \ {0}
  /\ LengthSize \in Nat \ {0}
  /\ LengthSize < BlockSize
  /\ Radix \in Nat \ {0, 1}
  /\ BitsPerByte \in Nat \ {0}

(* "A block's size divides 2^64" is what the code's buffered() rests on.    *)
ASSUME LenModAssumption ==
  /\ LenMod \in Nat \ {0}
  /\ LenMod % BlockSize = 0

ASSUME WeightAssumption ==
  \A k \in 0 .. LengthSize : Radix ^ k \in Nat \ {0}

Byte == 0 .. Radix - 1
Block == [0 .. BlockSize - 1 -> Byte]

(* 0x80: the top bit of a byte.                                            *)
Marker == Radix \div 2

(* [0; BLOCK_SIZE]                                                         *)
ZeroBlock == [k \in 0 .. BlockSize - 1 |-> 0]

(* to_be_bytes of a length: byte j of LengthSize, most significant first.  *)
LengthByte(n, j) == (n \div Radix ^ (LengthSize - 1 - j)) % Radix

(* The bytes of a length give the length back.                             *)
ASSUME LengthBytesAssumption ==
  \A n, m \in 0 .. LenMod - 1 :
    (\A j \in 0 .. LengthSize - 1 : LengthByte(n, j) = LengthByte(m, j)) => n = m

(* One element of a chaining value: a block, and how often it went in.     *)
Compression == [block : Block, times : {1, 3}]

(* Whether the n-th compression of a chain was flagged.                    *)
FlaggedAt(settings, chain, n) ==
  Attack(settings, SubSeq(chain, 1, n - 1), chain[n].block)

(* How often the n-th block of a chain has to be in it.                    *)
TimesAt(settings, chain, n) ==
  IF settings.safe_hash /\ FlaggedAt(settings, chain, n) THEN 3 ELSE 1

-----------------------------------------------------------------------------
(***************************************************************************)
(* The reference: FIPS 180-1 padding of a whole message, written byte by   *)
(* byte rather than the way the hasher assembles it.                       *)
(***************************************************************************)

(* The fewest blocks that hold the message, the marker and the length.     *)
PaddedBlocks(message) ==
  (Len(message) + LengthSize + BlockSize) \div BlockSize

PaddedByte(message, k) ==
  LET lengthAt == PaddedBlocks(message) * BlockSize - LengthSize
      bitLength == (Len(message) * BitsPerByte) % LenMod
  IN IF k < Len(message) THEN message[k + 1]
     ELSE IF k = Len(message) THEN Marker
     ELSE IF k >= lengthAt THEN LengthByte(bitLength, k - lengthAt)
     ELSE 0

(* The chain is the one of the whole padded message.                       *)
IsChainOf(settings, message, chain) ==
  /\ Len(chain) = PaddedBlocks(message)
  /\ \A n \in 1 .. Len(chain) :
       /\ \A k \in 0 .. BlockSize - 1 :
            chain[n].block[k] = PaddedByte(message, (n - 1) * BlockSize + k)
       /\ chain[n].times = TimesAt(settings, chain, n)

(* The Result a finalization returns: Ok, Collision or Mitigated.          *)
ResultKind(settings, chain) ==
  IF \E n \in 1 .. Len(chain) : FlaggedAt(settings, chain, n)
  THEN IF settings.safe_hash THEN "Mitigated" ELSE "Collision"
  ELSE "Ok"
=============================================================================
