------------------------------ MODULE MCSearch ------------------------------
(***************************************************************************)
(* The search over six conditions of three DVs: conditions that two DVs    *)
(* share, a pair of bits that two DVs want different, a tree of five bits. *)
(* The greedy is not the best for two of the targets, one of which takes a *)
(* jump to get past it, and one target checks everything in its prefix.    *)
(***************************************************************************)
EXTENDS Search

Joins(u, v, c, dvs) == [u |-> u, v |-> v, c |-> c, dvs |-> dvs]

MCUbcs ==
  << Joins(<<3, 0>>, <<5, 0>>, 0, {0, 2}),
     Joins(<<4, 0>>, <<5, 0>>, 0, {1}),
     Joins(<<4, 0>>, <<5, 0>>, 1, {2}),
     Joins(<<1, 1>>, <<3, 1>>, 0, {0, 1}),
     Joins(<<2, 0>>, <<4, 0>>, 1, {1, 2}),
     Joins(<<1, 1>>, <<3, 0>>, 0, {2}) >>

MCPublished == { MCUbcs[n] : n \in DOMAIN MCUbcs }
MCVertex == {<<1, 1>>, <<2, 0>>, <<3, 0>>, <<3, 1>>, <<4, 0>>, <<5, 0>>}

Target(width, groups, lane_bit) == [width |-> width, groups |-> groups, lane_bit |-> lane_bit]
MCParams ==
  {Target(1, 3, FALSE), Target(2, 2, TRUE), Target(2, 3, TRUE), Target(2, 2, FALSE), Target(2, 6, TRUE)}
=============================================================================
