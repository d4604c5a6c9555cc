------------------------------ MODULE MCHasher ------------------------------
(***************************************************************************)
(* Hasher on small instances: blocks of two or four bytes, a byte of three *)
(* or two bits, and blocks that are flagged depending on the chaining      *)
(* value they follow.                                                      *)
(***************************************************************************)
EXTENDS Hasher

CONSTANTS
  DataBytes,   (* the bytes messages are made of                            *)
  MaxData      (* bound: the longest argument of one update                 *)

MCData == UNION { [1 .. n -> DataBytes] : n \in 0 .. MaxData }

Plain == [safe_hash |-> FALSE, ubc_check |-> TRUE,
          reduced_round_collision |-> FALSE, scalar_only |-> FALSE]
Mitigating == [Plain EXCEPT !.safe_hash = TRUE]
Reduced == [Plain EXCEPT !.reduced_round_collision = TRUE]

BothSettings == {Plain, Mitigating}
AllSettings == {Plain, Mitigating, Reduced}

(* A block that begins with the marker byte is flagged after an unflagged  *)
(* block or at the start, by the reduced-round question always: a data     *)
(* block, the last block and the block before it can all be flagged.       *)
MCAttack(settings, chain, block) ==
  /\ block[0] = Marker
  /\ \/ settings.reduced_round_collision
     \/ chain = << >>
     \/ chain[Len(chain)].block[0] # Marker

=============================================================================
