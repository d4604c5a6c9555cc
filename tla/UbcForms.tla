----------------------------- MODULE UbcForms -----------------------------
(***************************************************************************)
(* The checks each form of the filter makes: what codegen/ wrote to        *)
(* src/ubc_check/scalar.rs, sse2.rs, avx2.rs and neon.rs.                  *)
(***************************************************************************)
EXTENDS Integers, Sequences

(* scalar::prefix.  <<i, a, j, b, c, dvs>> as in UBCS: c is 0 for          *)
(* "(x & 1).wrapping_sub(1)" and 1 for "(0u32).wrapping_sub(x & 1)".       *)
ScalarPrefix1To29 ==
  <<<<44,29,45,29,0,{7,13,15,16,17,23,25}>>,
    <<46,29,47,29,0,{0,11,19,20,27,28}>>, <<45,4,48,29,0,{2,5,9,13,21,29}>>,
    <<49,29,50,29,0,{3,16,23,25,30,31}>>, <<40,29,41,29,0,{1,5,7,17,19,31}>>,
    <<36,1,37,6,1,{6,12,18}>>, <<47,29,48,29,0,{1,13,20,21,28,29}>>,
    <<39,1,40,6,1,{4,12,22}>>, <<40,1,41,6,1,{6,14,24}>>,
    <<41,1,42,6,1,{8,18,26}>>, <<43,4,46,29,0,{0,2,5,9,19,27}>>,
    <<46,4,49,29,0,{3,7,11,15,23,30}>>, <<45,6,47,6,0,{6,10,14}>>,
    <<45,29,46,29,0,{9,15,17,19,25,27}>>, <<44,4,47,29,0,{1,3,7,11,20,28}>>,
    <<48,29,49,29,0,{2,15,21,23,29,30}>>, <<44,6,46,6,0,{4,8,12}>>,
    <<47,4,50,29,0,{5,9,13,16,25,31}>>, <<35,1,36,6,1,{4,10}>>,
    <<44,1,45,6,1,{14,22}>>, <<42,6,43,1,0,{18,26}>>,
    <<37,4,40,29,0,{0,5,17,28,30}>>, <<41,6,42,1,0,{14,24}>>,
    <<40,4,43,29,0,{1,3,11,21,31}>>, <<41,4,44,29,0,{0,2,5,13,16,23}>>,
    <<52,29,53,29,0,{9,16,20,28,29}>>, <<40,6,41,1,0,{12,22}>>,
    <<46,6,47,1,0,{4,24}>>, <<47,6,48,1,0,{6,26}>>>>

ScalarPrefix30To70 ==
  <<<<42,4,45,29,0,{1,3,7,15,17,25}>>, <<37,1,38,6,1,{8,14}>>,
    <<43,6,45,6,0,{6,10}>>, <<53,29,54,29,0,{11,17,21,29,30}>>,
    <<41,29,42,29,0,{2,7,9,19,20}>>, <<50,29,51,29,0,{5,17,25,27,31}>>,
    <<61,2,62,7,1,{4,18}>>, <<46,6,48,6,0,{8,12}>>,
    <<39,4,42,29,0,{0,2,9,20,30}>>, <<43,29,44,29,0,{5,11,13,16,21,23}>>,
    <<47,6,49,6,0,{10,14}>>, <<51,29,52,29,0,{7,19,27,28}>>,
    <<36,0,37,5,1,{22}>>, <<37,0,38,5,1,{24}>>, <<38,0,39,5,1,{26}>>,
    <<38,4,41,29,0,{1,7,19,29,31}>>, <<50,6,51,1,0,{12,18}>>,
    <<42,6,44,6,0,{4,8}>>, <<48,4,51,29,0,{7,11,15,17,27}>>,
    <<42,29,43,29,0,{3,9,11,20,21}>>, <<54,29,55,29,0,{13,19,23,30,31}>>,
    <<38,1,39,6,1,{10}>>, <<45,1,46,6,1,{24}>>, <<46,1,47,6,1,{26}>>,
    <<50,1,51,6,1,{22}>>, <<39,4,40,29,1,{0,28,30}>>,
    <<55,29,56,29,0,{15,20,25,31}>>, <<48,6,50,6,0,{12,18}>>,
    <<49,4,52,29,0,{9,13,16,19,28}>>, <<40,4,41,29,1,{1,29,31}>>,
    <<41,4,42,29,1,{0,2,30}>>, <<42,1,43,6,1,{10}>>, <<51,1,52,6,1,{24}>>,
    <<52,1,53,6,1,{26}>>, <<62,2,63,7,1,{6}>>, <<63,2,64,7,1,{8}>>,
    <<45,6,46,1,0,{22}>>, <<36,4,40,29,0,{3,9,16,20}>>,
    <<50,4,53,29,0,{11,15,17,20,29}>>, <<56,29,57,29,0,{21,27}>>,
    <<43,4,44,29,1,{0,2,5}>>>>

ScalarPrefix == ScalarPrefix1To29 \o ScalarPrefix30To70

-----------------------------------------------------------------------------
(* A block of a vector prefix.  Its lanes test words near, near + 1, ...   *)
(* shifted down by ns against words far, far + 1, ... shifted down by fs,  *)
(* each at its own bit, for its own DVs, in the order the source lists     *)
(* them.  c is 1 where the DVs of a lane go if the bits are equal          *)
(* (vqsubq_u32; _mm_and_si128 of the miss), 0 where they go if they are    *)
(* not (vminq_u32; _mm_andnot_si128).  A lane without DVs tests nothing.   *)
Group(near, ns, far, fs, c, bit, dvs) ==
  [near |-> near, ns |-> ns, far |-> far, fs |-> fs, c |-> c, bit |-> bit, dvs |-> dvs]

NeonGroups1To9 ==
  <<Group(35,0,36,5,1, <<1,1,1,0>>, <<{4,10},{6,12,18},{8,14},{26}>>),
    Group(36,0,37,5,1, <<0,0,1,1>>, <<{22},{24},{10},{4,12,22}>>),
    Group(36,0,38,0,1, <<4,4,1,4>>, <<{27,29},{0,28,30},{10},{0,2,30}>>),
    Group(36,0,40,25,0, <<4,5,5,5>>, <<{3,9,16,20},{22},{24},{26}>>),
    Group(38,0,40,0,1, <<4,1,1,1>>, <<{1,29,31},{12,22},{14,24},{18,26}>>),
    Group(37,0,40,25,0, <<4,4,4,4>>,
      <<{0,5,17,28,30},{1,7,19,29,31},{0,2,9,20,30},{1,3,11,21,31}>>),
    Group(40,0,41,5,1, <<1,1,1,1>>, <<{6,14,24},{8,18,26},{10},{12}>>),
    Group(40,0,41,0,0, <<29,29,29,29>>,
      <<{1,5,7,17,19,31},{2,7,9,19,20},{3,9,11,20,21},{5,11,13,16,21,23}>>),
    Group(41,0,43,0,0, <<6,6,6,6>>, <<{6},{4,8},{6,10},{4,8,12}>>)>>

NeonGroups10To15 ==
  <<Group(41,0,44,25,0, <<4,4,4,4>>,
      <<{0,2,5,13,16,23},{1,3,7,15,17,25},
        {0,2,5,9,19,27},{1,3,7,11,20,28}>>),
    Group(44,0,45,5,1, <<1,1,1,1>>, <<{14,22},{24},{26},{18}>>),
    Group(44,0,45,0,0, <<29,29,29,29>>,
      <<{7,13,15,16,17,23,25},{9,15,17,19,25,27},
        {0,11,19,20,27,28},{1,13,20,21,28,29}>>),
    Group(45,5,46,0,0, <<1,1,1,1>>, <<{22},{4,24},{6,26},{8}>>),
    Group(45,0,47,0,0, <<6,6,6,6>>, <<{6,10,14},{8,12},{10,14},{12,18}>>),
    Group(45,0,47,0,1, <<29,29,4,4>>,
      <<{1,3,7},{2,5,9},{9,13,16},{11,15,17}>>)>>

NeonGroups16To20 ==
  <<Group(45,0,48,25,0, <<4,4,4,4>>,
      <<{2,5,9,13,21,29},{3,7,11,15,23,30},
        {5,9,13,16,25,31},{7,11,15,17,27}>>),
    Group(48,0,49,0,0, <<29,29,29,29>>,
      <<{2,15,21,23,29,30},{3,16,23,25,30,31},
        {5,17,25,27,31},{7,19,27,28}>>),
    Group(52,0,53,0,0, <<29,29,29,29>>,
      <<{9,16,20,28,29},{11,17,21,29,30},{13,19,23,30,31},{15,20,25,31}>>),
    Group(52,0,55,0,1, <<29,29,29,29>>,
      <<{13,19,20},{15,20,21},{21,23},{23,25}>>),
    Group(60,0,61,5,1, <<0,2,2,2>>, <<{2,16},{4,18},{6},{8}>>)>>

NeonPrefix ==
  NeonGroups1To9 \o NeonGroups10To15 \o NeonGroups16To20

Sse2Groups1To7 ==
  <<Group(35,0,36,5,1, <<1,1,1,0>>, <<{4,10},{6,12,18},{8,14},{26}>>),
    Group(36,0,37,5,1, <<0,0,1,1>>, <<{22},{24},{10},{4,12,22}>>),
    Group(36,0,38,0,1, <<4,4,1,4>>, <<{27,29},{0,28,30},{10},{0,2,30}>>),
    Group(37,0,40,25,0, <<4,4,4,4>>,
      <<{0,5,17,28,30},{1,7,19,29,31},{0,2,9,20,30},{1,3,11,21,31}>>),
    Group(36,0,40,25,0, <<4,5,5,5>>, <<{3,9,16,20},{22},{24},{26}>>),
    Group(38,0,40,0,1, <<4,1,1,1>>, <<{1,29,31},{12,22},{14,24},{18,26}>>),
    Group(40,0,41,5,1, <<1,1,1,1>>, <<{6,14,24},{8,18,26},{10},{12}>>)>>

Sse2Groups8To12 ==
  <<Group(40,0,41,0,0, <<29,29,29,29>>,
      <<{1,5,7,17,19,31},{2,7,9,19,20},{3,9,11,20,21},{5,11,13,16,21,23}>>),
    Group(41,0,44,25,0, <<4,4,4,4>>,
      <<{0,2,5,13,16,23},{1,3,7,15,17,25},
        {0,2,5,9,19,27},{1,3,7,11,20,28}>>),
    Group(42,0,44,0,0, <<6,6,6,6>>, <<{4,8},{6,10},{4,8,12},{6,10,14}>>),
    Group(40,0,44,0,0, <<6,6,29,29>>, <<{4},{6},{0,2},{1,3}>>),
    Group(44,0,45,5,1, <<1,1,1,1>>, <<{14,22},{24},{26},{18}>>)>>

Sse2Groups13To18 ==
  <<Group(44,0,45,0,0, <<29,29,29,29>>,
      <<{7,13,15,16,17,23,25},{9,15,17,19,25,27},
        {0,11,19,20,27,28},{1,13,20,21,28,29}>>),
    Group(45,5,46,0,0, <<1,1,1,1>>, <<{22},{4,24},{6,26},{8}>>),
    Group(45,0,47,0,1, <<29,29,29,4>>,
      <<{1,3,7},{2,5,9},{3,7,11},{11,15,17}>>),
    Group(46,0,48,0,0, <<6,6,6,6>>, <<{8,12},{10,14},{12,18},{14}>>),
    Group(45,0,48,25,0, <<4,4,4,4>>,
      <<{2,5,9,13,21,29},{3,7,11,15,23,30},
        {5,9,13,16,25,31},{7,11,15,17,27}>>),
    Group(48,0,49,0,0, <<29,29,29,29>>,
      <<{2,15,21,23,29,30},{3,16,23,25,30,31},
        {5,17,25,27,31},{7,19,27,28}>>)>>

Sse2Groups19To26 ==
  <<Group(49,5,50,0,0, <<1,1,1,1>>, <<{10},{12,18},{14},{}>>),
    Group(49,0,52,25,0, <<4,4,4,4>>,
      <<{9,13,16,19,28},{11,15,17,20,29},{13,19,21,30},{15,20,23,31}>>),
    Group(49,0,53,0,1, <<29,1,1,1>>, <<{16},{22},{24},{26}>>),
    Group(52,0,53,0,0, <<29,29,29,29>>,
      <<{9,16,20,28,29},{11,17,21,29,30},{13,19,23,30,31},{15,20,25,31}>>),
    Group(53,5,54,0,0, <<1,1,1,1>>, <<{22},{24},{26},{}>>),
    Group(52,0,55,0,1, <<29,29,29,29>>,
      <<{13,19,20},{15,20,21},{21,23},{23,25}>>),
    Group(53,0,56,25,0, <<4,4,4,4>>, <<{21,25},{23,27},{25,28},{27,29}>>),
    Group(60,0,61,5,1, <<0,2,2,2>>, <<{2,16},{4,18},{6},{8}>>)>>

Sse2Prefix ==
  Sse2Groups1To7 \o Sse2Groups8To12 \o Sse2Groups13To18 \o Sse2Groups19To26

Avx2Groups1To4 ==
  <<Group(35,0,36,5,1, <<1,1,1,0,1,1,1,1>>,
      <<{4,10},{6,12,18},{8,14},{26},{4,12,22},{6,14,24},{8,18,26},{10}>>),
    Group(36,0,38,0,1, <<4,4,4,4,4,4,4,4>>,
      <<{27,29},{0,28,30},{1,29,31},{0,2,30},
        {1,3,31},{0,2,5},{1,3,7},{2,5,9}>>),
    Group(37,0,38,5,1, <<0,1,0,0,0,0,1,1>>,
      <<{24},{10},{},{},{},{},{12},{14,22}>>),
    Group(35,0,39,25,0, <<5,4,5,5,5,3,3,4>>,
      <<{14},{3,9,16,20},{22},{24},{26},{27},{28},{15,17,25,29}>>)>>

Avx2Groups5To8 ==
  <<Group(37,0,40,25,0, <<4,4,4,4,4,4,4,4>>,
      <<{0,5,17,28,30},{1,7,19,29,31},{0,2,9,20,30},{1,3,11,21,31},
        {0,2,5,13,16,23},{1,3,7,15,17,25},{0,2,5,9,19,27},{1,3,7,11,20,28}>>),
    Group(39,5,40,0,0, <<1,1,1,1,1,1,1,1>>,
      <<{10},{12,22},{14,24},{18,26},{},{},{22},{4,24}>>),
    Group(40,0,41,0,0, <<29,29,29,29,29,29,29,29>>,
      <<{1,5,7,17,19,31},{2,7,9,19,20},{3,9,11,20,21},{5,11,13,16,21,23},
        {7,13,15,16,17,23,25},{9,15,17,19,25,27},{0,11,19,20,27,28},{1,13,20,21,28,29}>>),
    Group(40,0,42,0,0, <<6,6,6,6,6,6,6,6>>,
      <<{4},{6},{4,8},{6,10},{4,8,12},{6,10,14},{8,12},{10,14}>>)>>

Avx2Groups9To13 ==
  <<Group(45,0,46,5,1, <<1,1,1,1,1,1,1,1>>,
      <<{24},{26},{18},{},{},{22},{24},{26}>>),
    Group(45,0,48,25,0, <<4,4,4,4,4,4,4,4>>,
      <<{2,5,9,13,21,29},{3,7,11,15,23,30},{5,9,13,16,25,31},{7,11,15,17,27},
        {9,13,16,19,28},{11,15,17,20,29},{13,19,21,30},{15,20,23,31}>>),
    Group(47,5,48,0,0, <<1,1,1,1,1,1,1,1>>,
      <<{6,26},{8},{10},{12,18},{14},{},{22},{24}>>),
    Group(47,0,49,0,1, <<29,29,29,29,4,4,4,4>>,
      <<{3,7,11},{5,9,13},{7,11,15},{9,13,16},{21},{23},{25},{27}>>),
    Group(48,0,49,0,0, <<29,29,29,29,29,29,29,29>>,
      <<{2,15,21,23,29,30},{3,16,23,25,30,31},{5,17,25,27,31},{7,19,27,28},
        {9,16,20,28,29},{11,17,21,29,30},{13,19,23,30,31},{15,20,25,31}>>)>>

Avx2Groups14To16 ==
  <<Group(48,0,50,0,0, <<6,6,6,6,6,6,6,6>>,
      <<{12,18},{14},{},{22},{24},{26},{},{}>>),
    Group(51,0,54,0,1, <<29,29,29,29,29,29,29,29>>,
      <<{11,17,19},{13,19,20},{15,20,21},{21,23},
        {23,25},{25,27},{27},{28}>>),
    Group(58,0,59,5,1, <<0,0,0,2,2,2,0,0>>,
      <<{0},{1},{2,16},{4,18},{6},{8},{},{}>>)>>

Avx2Prefix ==
  Avx2Groups1To4 \o Avx2Groups5To8 \o Avx2Groups9To13 \o Avx2Groups14To16

-----------------------------------------------------------------------------
(* TAIL_CHECKS, <<i, a, j, b, c>>, and TAIL_SPANS: where the checks of     *)
(* each DV begin in it, counted from zero, and how many there are.         *)
ScalarTailChecks ==
  <<<<58,0,59,5,1>>, <<58,0,63,30,1>>, <<61,1,62,6,1>>, <<43,4,47,29,0>>,
    <<40,4,42,4,1>>, <<42,4,44,4,1>>, <<59,0,60,5,1>>, <<59,0,64,30,1>>,
    <<62,1,63,6,1>>, <<44,4,48,29,0>>, <<43,4,45,4,1>>, <<60,0,61,5,1>>,
    <<63,1,64,6,1>>, <<35,4,39,29,0>>, <<40,4,42,4,1>>, <<42,4,44,4,1>>,
    <<44,4,46,4,1>>, <<61,0,62,5,1>>, <<39,1,42,6,1>>, <<43,4,45,4,1>>,
    <<45,4,47,4,1>>, <<62,0,63,5,1>>, <<37,4,41,29,0>>, <<40,1,43,6,1>>,
    <<42,4,44,4,1>>, <<44,4,46,4,1>>, <<46,4,48,4,1>>, <<63,0,64,5,1>>,
    <<35,4,39,29,0>>, <<38,4,42,29,0>>, <<41,1,49,1,1>>, <<43,4,45,4,1>>,
    <<45,4,47,4,1>>, <<47,4,49,4,1>>, <<39,4,43,29,0>>, <<38,1,40,1,1>>,
    <<42,1,50,1,1>>, <<36,4,37,4,1>>, <<44,4,46,4,1>>, <<46,4,48,4,1>>,
    <<48,4,50,4,1>>, <<37,4,41,29,0>>, <<40,4,44,29,0>>, <<43,1,44,6,1>>,
    <<37,4,38,4,1>>, <<45,4,47,4,1>>, <<47,4,49,4,1>>, <<52,29,55,29,1>>,
    <<35,3,39,28,0>>, <<38,4,42,29,0>>, <<41,4,45,29,0>>, <<51,4,54,29,0>>,
    <<44,1,51,6,1>>, <<44,1,52,1,1>>, <<35,5,39,30,0>>, <<37,1,37,6,0>>,
    <<38,4,39,4,1>>, <<46,4,48,4,1>>, <<48,4,50,4,1>>, <<53,29,56,29,1>>,
    <<39,4,43,29,0>>, <<42,4,46,29,0>>, <<52,4,55,29,0>>, <<47,4,49,4,1>>,
    <<60,0,61,5,1>>, <<63,1,64,6,1>>, <<41,4,45,29,0>>, <<48,4,50,4,1>>,
    <<61,0,62,5,1>>, <<37,4,41,29,0>>, <<42,4,46,29,0>>, <<47,1,48,6,1>>,
    <<52,29,55,29,1>>, <<62,0,63,5,1>>, <<35,3,39,28,0>>, <<35,4,39,29,0>>,
    <<38,4,42,29,0>>, <<43,4,47,29,0>>, <<51,4,54,29,0>>, <<35,30,36,3,1>>,
    <<35,30,40,28,1>>, <<52,29,55,29,1>>, <<53,29,56,29,1>>, <<63,0,64,5,1>>,
    <<39,4,43,29,0>>, <<44,4,48,29,0>>, <<52,4,55,29,0>>, <<36,30,37,3,1>>,
    <<36,30,41,28,1>>, <<53,29,56,29,1>>, <<37,4,41,29,0>>, <<40,4,44,29,0>>,
    <<51,4,54,29,0>>, <<53,4,56,29,0>>, <<36,0,41,30,1>>, <<50,1,53,6,1>>,
    <<50,1,54,1,1>>, <<37,30,38,3,1>>, <<37,30,42,28,1>>, <<55,29,58,29,1>>,
    <<38,4,42,29,0>>, <<41,4,45,29,0>>, <<52,4,55,29,0>>, <<54,4,57,29,0>>,
    <<57,29,58,29,0>>, <<37,0,42,30,1>>, <<51,1,54,6,1>>, <<51,1,55,1,1>>,
    <<38,30,39,3,1>>, <<38,30,43,28,1>>, <<55,29,58,29,1>>, <<56,29,59,29,1>>,
    <<39,4,43,29,0>>, <<42,4,46,29,0>>, <<53,4,56,29,0>>, <<55,4,58,29,0>>,
    <<38,0,43,30,1>>, <<52,1,55,6,1>>, <<52,1,56,1,1>>, <<36,4,38,4,1>>,
    <<39,30,40,3,1>>, <<39,30,44,28,1>>, <<54,4,60,29,1>>, <<56,29,59,29,1>>,
    <<40,4,44,29,0>>, <<43,4,47,29,0>>, <<54,4,57,29,0>>, <<56,4,59,29,0>>,
    <<55,4,57,4,1>>, <<55,4,61,29,1>>, <<41,3,45,28,0>>, <<41,4,45,29,0>>,
    <<44,4,48,29,0>>, <<55,4,58,29,0>>, <<57,29,58,29,0>>, <<36,4,38,4,1>>,
    <<42,3,46,28,0>>, <<42,4,46,29,0>>, <<56,4,59,29,0>>, <<56,4,58,29,0>>,
    <<58,4,62,29,0>>, <<43,3,47,28,0>>, <<43,4,47,29,0>>, <<51,4,54,29,0>>,
    <<57,4,59,29,0>>, <<59,4,63,29,0>>, <<40,4,42,4,1>>, <<44,3,48,28,0>>,
    <<44,4,48,29,0>>, <<52,4,55,29,0>>, <<60,4,64,29,0>>>>

ScalarTailSpans ==
  <<<<0,4>>, <<4,6>>, <<10,4>>, <<14,4>>, <<18,1>>, <<19,4>>, <<23,1>>,
    <<24,6>>, <<30,1>>, <<31,4>>, <<35,2>>, <<37,6>>, <<43,1>>, <<44,8>>,
    <<52,4>>, <<56,7>>, <<63,4>>, <<67,4>>, <<71,1>>, <<72,7>>, <<79,8>>,
    <<87,7>>, <<94,3>>, <<97,8>>, <<105,3>>, <<108,8>>, <<116,3>>, <<119,9>>,
    <<128,7>>, <<135,6>>, <<141,5>>, <<146,5>>>>

Sse2TailChecks ==
  <<<<41,4,43,4,1>>, <<58,0,59,5,1>>, <<58,0,63,30,1>>, <<61,1,62,6,1>>,
    <<43,4,47,29,0>>, <<59,0,60,5,1>>, <<59,0,64,30,1>>, <<62,1,63,6,1>>,
    <<38,4,42,4,0>>, <<44,4,48,29,0>>, <<41,4,43,4,1>>, <<63,1,64,6,1>>,
    <<35,4,39,29,0>>, <<61,0,62,5,1>>, <<41,4,43,4,1>>, <<45,4,47,4,1>>,
    <<62,0,63,5,1>>, <<37,4,41,29,0>>, <<46,4,48,4,1>>, <<63,0,64,5,1>>,
    <<35,4,39,29,0>>, <<38,4,42,29,0>>, <<45,4,47,4,1>>, <<39,4,43,29,0>>,
    <<45,4,49,4,0>>, <<36,4,37,4,1>>, <<46,4,48,4,1>>, <<37,4,41,29,0>>,
    <<40,4,44,29,0>>, <<37,4,38,4,1>>, <<45,4,47,4,1>>, <<35,3,39,28,0>>,
    <<38,4,42,29,0>>, <<41,4,45,29,0>>, <<45,4,49,4,0>>, <<35,5,39,30,0>>,
    <<37,1,37,6,0>>, <<38,4,39,4,1>>, <<46,4,48,4,1>>, <<39,4,43,29,0>>,
    <<42,4,46,29,0>>, <<63,1,64,6,1>>, <<41,4,45,29,0>>, <<61,0,62,5,1>>,
    <<37,4,41,29,0>>, <<42,4,46,29,0>>, <<62,0,63,5,1>>, <<35,3,39,28,0>>,
    <<35,4,39,29,0>>, <<38,4,42,29,0>>, <<43,4,47,29,0>>, <<35,30,36,3,1>>,
    <<35,30,40,28,1>>, <<63,0,64,5,1>>, <<39,4,43,29,0>>, <<44,4,48,29,0>>,
    <<36,30,37,3,1>>, <<36,30,41,28,1>>, <<37,4,41,29,0>>, <<40,4,44,29,0>>,
    <<50,1,51,6,1>>, <<37,30,38,3,1>>, <<37,30,42,28,1>>, <<38,4,42,29,0>>,
    <<41,4,45,29,0>>, <<51,1,52,6,1>>, <<38,30,39,3,1>>, <<38,30,43,28,1>>,
    <<56,29,59,29,1>>, <<39,4,43,29,0>>, <<42,4,46,29,0>>, <<52,1,53,6,1>>,
    <<39,30,40,3,1>>, <<39,30,44,28,1>>, <<54,4,56,4,1>>, <<54,4,60,29,1>>,
    <<56,29,59,29,1>>, <<40,4,44,29,0>>, <<43,4,47,29,0>>, <<55,4,57,4,1>>,
    <<55,4,61,29,1>>, <<41,3,45,28,0>>, <<41,4,45,29,0>>, <<44,4,48,29,0>>,
    <<55,4,57,29,0>>, <<42,3,46,28,0>>, <<42,4,46,29,0>>, <<56,4,58,29,0>>,
    <<58,4,62,29,0>>, <<43,3,47,28,0>>, <<43,4,47,29,0>>, <<57,4,59,29,0>>,
    <<59,4,63,29,0>>, <<38,4,42,4,0>>, <<44,3,48,28,0>>, <<44,4,48,29,0>>,
    <<60,4,64,29,0>>>>

Sse2TailSpans ==
  <<<<0,5>>, <<5,5>>, <<10,3>>, <<13,1>>, <<14,0>>, <<14,4>>, <<18,0>>,
    <<18,4>>, <<22,0>>, <<22,3>>, <<25,0>>, <<25,4>>, <<29,0>>, <<29,6>>,
    <<35,2>>, <<37,4>>, <<41,2>>, <<43,3>>, <<46,0>>, <<46,5>>, <<51,5>>,
    <<56,4>>, <<60,1>>, <<61,4>>, <<65,1>>, <<66,5>>, <<71,1>>, <<72,7>>,
    <<79,6>>, <<85,4>>, <<89,4>>, <<93,4>>>>

Avx2TailChecks ==
  <<<<58,0,63,30,1>>, <<61,1,62,6,1>>, <<43,4,47,29,0>>, <<59,0,64,30,1>>,
    <<62,1,63,6,1>>, <<44,4,48,29,0>>, <<63,1,64,6,1>>, <<35,4,39,29,0>>,
    <<61,0,62,5,1>>, <<62,0,63,5,1>>, <<37,4,41,29,0>>, <<63,0,64,5,1>>,
    <<35,4,39,29,0>>, <<38,4,42,29,0>>, <<39,4,43,29,0>>, <<36,4,37,4,1>>,
    <<37,4,41,29,0>>, <<40,4,44,29,0>>, <<46,4,50,4,0>>, <<37,4,38,4,1>>,
    <<35,3,39,28,0>>, <<38,4,42,29,0>>, <<41,4,45,29,0>>, <<37,1,37,6,0>>,
    <<38,4,39,4,1>>, <<39,4,43,29,0>>, <<46,4,50,4,0>>, <<63,1,64,6,1>>,
    <<41,4,45,29,0>>, <<61,0,62,5,1>>, <<37,4,41,29,0>>, <<62,0,63,5,1>>,
    <<35,3,39,28,0>>, <<35,4,39,29,0>>, <<38,4,42,29,0>>, <<43,4,47,29,0>>,
    <<35,30,36,3,1>>, <<35,30,40,28,1>>, <<63,0,64,5,1>>, <<39,4,43,29,0>>,
    <<44,4,48,29,0>>, <<36,30,37,3,1>>, <<36,30,41,28,1>>, <<37,4,41,29,0>>,
    <<40,4,44,29,0>>, <<36,0,37,5,1>>, <<37,30,38,3,1>>, <<37,30,42,28,1>>,
    <<38,4,42,29,0>>, <<41,4,45,29,0>>, <<54,4,57,29,0>>, <<38,30,39,3,1>>,
    <<38,30,43,28,1>>, <<39,4,43,29,0>>, <<55,4,58,29,0>>, <<52,1,56,1,1>>,
    <<39,30,40,3,1>>, <<40,4,44,29,0>>, <<43,4,47,29,0>>, <<54,4,57,29,0>>,
    <<56,4,59,29,0>>, <<55,4,57,4,1>>, <<41,4,45,29,0>>, <<44,4,48,29,0>>,
    <<55,4,58,29,0>>, <<55,4,57,29,0>>, <<42,3,46,28,0>>, <<56,4,59,29,0>>,
    <<56,4,58,29,0>>, <<58,4,62,29,0>>, <<43,3,47,28,0>>, <<43,4,47,29,0>>,
    <<57,4,59,29,0>>, <<59,4,63,29,0>>, <<44,3,48,28,0>>, <<44,4,48,29,0>>,
    <<60,4,64,29,0>>>>

Avx2TailSpans ==
  <<<<0,3>>, <<3,3>>, <<6,2>>, <<8,1>>, <<9,0>>, <<9,2>>, <<11,0>>, <<11,3>>,
    <<14,0>>, <<14,1>>, <<15,0>>, <<15,4>>, <<19,0>>, <<19,4>>, <<23,1>>,
    <<24,3>>, <<27,2>>, <<29,2>>, <<31,0>>, <<31,5>>, <<36,5>>, <<41,4>>,
    <<45,1>>, <<46,5>>, <<51,0>>, <<51,4>>, <<55,1>>, <<56,5>>, <<61,5>>,
    <<66,4>>, <<70,4>>, <<74,3>>>>

-----------------------------------------------------------------------------
(* neon::tail: a guarded block per DV, <<dv, checks>>.  The checks are as  *)
(* in TAIL_CHECKS: a "^ 1" makes c one.                                    *)
NeonTailCommon ==
  <<<<4, <<<<39,1,42,6,1>>>>>>,
    <<14, <<<<44,1,51,6,1>>, <<44,1,52,1,1>>, <<35,5,39,30,0>>, <<37,1,37,6,0>>>>>>,
    <<18, <<<<48,6,51,1,0>>>>>>,
    <<22, <<<<50,1,51,6,1>>, <<50,1,53,6,1>>, <<50,1,54,1,1>>>>>>,
    <<24, <<<<51,1,52,6,1>>, <<51,1,54,6,1>>, <<51,1,55,1,1>>>>>>,
    <<26, <<<<52,1,53,6,1>>, <<52,1,55,6,1>>, <<52,1,56,1,1>>>>>>, <<0,
       <<<<41,4,43,4,1>>, <<58,0,59,5,1>>, <<58,0,63,30,1>>, <<61,1,62,6,1>>,
         <<43,4,47,29,0>>>>>>,
    <<10, <<<<42,1,50,1,1>>>>>>, <<12, <<<<48,6,51,1,0>>>>>>, <<27,
       <<<<39,30,40,3,1>>, <<39,30,44,28,1>>, <<54,4,56,4,1>>,
         <<54,4,60,29,1>>, <<56,29,59,29,1>>, <<40,4,44,29,0>>,
         <<43,4,47,29,0>>, <<54,4,57,29,0>>, <<56,4,59,29,0>>>>>>,
    <<28,
       <<<<55,4,57,4,1>>, <<55,4,61,29,1>>, <<41,3,45,28,0>>,
         <<41,4,45,29,0>>, <<44,4,48,29,0>>, <<49,4,52,29,0>>,
         <<55,4,58,29,0>>, <<55,4,57,29,0>>>>>>>>

(* The DVs the prefix leaves rarely alive, and their blocks.               *)
NeonRare == {1,2,3,5,7,9,11,13,15,16,17,19,20,21,23,25,29,30,31}

NeonTailRare ==
  <<<<1,
       <<<<40,4,42,4,1>>, <<59,0,60,5,1>>, <<59,0,64,30,1>>, <<62,1,63,6,1>>,
         <<44,4,48,29,0>>>>>>,
    <<3, <<<<40,4,42,4,1>>, <<44,4,46,4,1>>, <<61,0,62,5,1>>>>>>, <<25,
       <<<<38,30,39,3,1>>, <<38,30,43,28,1>>, <<56,29,59,29,1>>,
         <<39,4,43,29,0>>, <<42,4,46,29,0>>, <<53,4,56,29,0>>,
         <<55,4,58,29,0>>>>>>,
    <<29,
       <<<<42,3,46,28,0>>, <<42,4,46,29,0>>, <<50,4,53,29,0>>,
         <<56,4,59,29,0>>, <<56,4,58,29,0>>, <<58,4,62,29,0>>>>>>,
    <<2, <<<<41,4,43,4,1>>, <<63,1,64,6,1>>, <<35,4,39,29,0>>>>>>,
    <<5, <<<<41,4,43,4,1>>, <<45,4,47,4,1>>, <<62,0,63,5,1>>, <<37,4,41,29,0>>>>>>,
    <<11,
       <<<<36,4,37,4,1>>, <<44,4,46,4,1>>, <<46,4,48,4,1>>, <<37,4,41,29,0>>,
         <<40,4,44,29,0>>, <<50,4,53,29,0>>>>>>,
    <<13,
       <<<<37,4,38,4,1>>, <<45,4,47,4,1>>, <<35,3,39,28,0>>, <<38,4,42,29,0>>,
         <<41,4,45,29,0>>, <<49,4,52,29,0>>, <<51,4,54,29,0>>>>>>,
    <<15,
       <<<<38,4,39,4,1>>, <<46,4,48,4,1>>, <<39,4,43,29,0>>, <<42,4,46,29,0>>,
         <<50,4,53,29,0>>, <<52,4,55,29,0>>>>>>,
    <<16, <<<<63,1,64,6,1>>, <<41,4,45,29,0>>, <<49,4,52,29,0>>>>>>,
    <<17, <<<<61,0,62,5,1>>, <<37,4,41,29,0>>, <<42,4,46,29,0>>, <<50,4,53,29,0>>>>>>,
    <<19,
       <<<<62,0,63,5,1>>, <<35,3,39,28,0>>, <<35,4,39,29,0>>,
         <<38,4,42,29,0>>, <<43,4,47,29,0>>, <<49,4,52,29,0>>,
         <<51,4,54,29,0>>>>>>,
    <<21,
       <<<<36,30,37,3,1>>, <<36,30,41,28,1>>, <<37,4,41,29,0>>,
         <<40,4,44,29,0>>, <<51,4,54,29,0>>, <<53,4,56,29,0>>>>>>,
    <<23,
       <<<<37,30,38,3,1>>, <<37,30,42,28,1>>, <<38,4,42,29,0>>,
         <<41,4,45,29,0>>, <<52,4,55,29,0>>, <<54,4,57,29,0>>>>>>,
    <<30,
       <<<<43,3,47,28,0>>, <<43,4,47,29,0>>, <<51,4,54,29,0>>,
         <<57,4,59,29,0>>, <<59,4,63,29,0>>>>>>,
    <<31,
       <<<<40,4,42,4,1>>, <<44,3,48,28,0>>, <<44,4,48,29,0>>,
         <<52,4,55,29,0>>, <<60,4,64,29,0>>>>>>>>

NeonTailRarest ==
  <<<<7,
       <<<<44,4,46,4,1>>, <<46,4,48,4,1>>, <<63,0,64,5,1>>, <<35,4,39,29,0>>,
         <<38,4,42,29,0>>>>>>,
    <<20,
       <<<<35,30,36,3,1>>, <<35,30,40,28,1>>, <<63,0,64,5,1>>,
         <<39,4,43,29,0>>, <<44,4,48,29,0>>, <<50,4,53,29,0>>,
         <<52,4,55,29,0>>>>>>,
    <<9, <<<<45,4,47,4,1>>, <<39,4,43,29,0>>, <<49,4,52,29,0>>>>>>>>

NeonTail == NeonTailCommon \o NeonTailRare \o NeonTailRarest

=============================================================================
