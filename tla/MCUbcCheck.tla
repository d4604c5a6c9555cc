----------------------------- MODULE MCUbcCheck -----------------------------
(***************************************************************************)
(* The filter on blocks around those each DV survives on.                  *)
(***************************************************************************)
EXTENDS UbcCheck

MCMachines ==
  {[target |-> t, avx2 |-> a, scalar_only |-> s]
     : t \in {"aarch64", "x86", "other"}, a \in BOOLEAN, s \in BOOLEAN}

(* For each DV a block with few one bits that meets its conditions.        *)
KeptBlocks ==
  {{224,411}, {83,122,477}, {126,281}, {156,322,474}, {255}, {317,442},
   {287,466}, {349,474}, {162,217}, {353,474}, {351}, {179,306,385},
   {383}, {25,320}, {89,292}, {57,449}, {213,379}, {86,285,374},
   {186,187}, {279,319}, {113,250}, {286,343}, {161,345}, {375,415},
   {440}, {350,407}, {472}, {184,349,375}, {278,307,381}, {258},
   {148,508}, {180,258}}

(* The partner of each along one DV or another, ...                        *)
Partners ==
  {{k \in 0..511 : (k \in b) # Bit(dm, k)}
     : b \in KeptBlocks, dm \in {SHA1_DVS[4], SHA1_DVS[14], SHA1_DVS[27]}}

(* ... and blocks one bit away, where some of the conditions fail.         *)
NearBlocks == {SymDiff(b, {k}) : b \in KeptBlocks, k \in {5, 93, 190, 258, 347, 508}}

MCBlocks == KeptBlocks \cup Partners \cup NearBlocks
=============================================================================
