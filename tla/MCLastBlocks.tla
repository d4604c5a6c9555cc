---------------------------- MODULE MCLastBlocks ----------------------------
(***************************************************************************)
(* Blocks of two words of four bytes of two bits, the second word being    *)
(* the length, and five conditions of two DVs.  With three bytes left     *)
(* over the free bits reach every sum, with one or two some, and with four *)
(* or more, where only the length is free, few.                            *)
(***************************************************************************)
EXTENDS LastBlocks

Joins(u, v, c, dvs) == [u |-> u, v |-> v, c |-> c, dvs |-> dvs]

MCUbcs ==
  << Joins(<<4, 0>>, <<4, 5>>, 1, {0, 1}),
     Joins(<<2, 7>>, <<4, 5>>, 1, {0, 1}),
     Joins(<<1, 1>>, <<4, 0>>, 1, {1}),
     Joins(<<2, 4>>, <<4, 5>>, 0, {1}),
     Joins(<<1, 1>>, <<4, 0>>, 0, {0}) >>

MCPublished == { MCUbcs[n] : n \in DOMAIN MCUbcs }
MCVertex == {<<1, 1>>, <<2, 4>>, <<2, 7>>, <<4, 0>>, <<4, 5>>}
=============================================================================
