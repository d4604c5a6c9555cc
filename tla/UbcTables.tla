---------------------------- MODULE UbcTables ----------------------------
(***************************************************************************)
(* The data of the unavoidable-bitconditions check as it was published,    *)
(* and as the C original applies it.                                       *)
(*                                                                         *)
(* A DV is named by its bit in the mask, its row of DVS: 0 to 15 are the   *)
(* sixteen of type I, 16 to 31 those of type II.  Bit k of a schedule is   *)
(* bit k % 32 of step k \div 32.                                           *)
(***************************************************************************)
EXTENDS Integers, Sequences

DVs == 0..31

(* DVS: the family, the step K and the bit B of each, and the state its    *)
(* recompression starts from.                                              *)
Dv(family, k, b, from) == [family |-> family, k |-> k, b |-> b, from |-> from]

DVS ==
  <<Dv("I",43,0,58), Dv("I",44,0,58), Dv("I",45,0,58), Dv("I",46,0,58),
    Dv("I",46,2,58), Dv("I",47,0,58), Dv("I",47,2,58), Dv("I",48,0,58),
    Dv("I",48,2,58), Dv("I",49,0,58), Dv("I",49,2,58), Dv("I",50,0,65),
    Dv("I",50,2,65), Dv("I",51,0,65), Dv("I",51,2,65), Dv("I",52,0,65),
    Dv("II",45,0,58), Dv("II",46,0,58), Dv("II",46,2,58), Dv("II",47,0,58),
    Dv("II",48,0,58), Dv("II",49,0,58), Dv("II",49,2,58), Dv("II",50,0,65),
    Dv("II",50,2,65), Dv("II",51,0,65), Dv("II",51,2,65), Dv("II",52,0,65),
    Dv("II",53,0,65), Dv("II",54,0,65), Dv("II",55,0,65), Dv("II",56,0,65)>>

(* The first sixteen words of the difference of the highest K of each      *)
(* family, a word being the set of its one bits.                           *)
TYPE_I_SEED ==
  <<{4,26}, {27,29,30,31}, {2,3,27}, {27,28}, {1,3,27,28,29,31}, {4,27,30,31},
    {4,26,27,29}, {2,4,26,28,29,30,31}, {3,26,28,29,31}, {27}, {2,3,27,28,31},
    {4,27,28,30,31}, {4,27}, {4,27,28,29,31}, {27,28,31}, {29,30}>>

TYPE_II_SEED ==
  <<{1,3,4,25,26,29}, {4}, {2,3,4,26}, {2,4,26,27,30,31}, {1,26,27},
    {4,30,31}, {2,3,4,26,28,29,31}, {2,26,27,28,29}, {1,3,4,26,27,28,29,31},
    {4,29}, {2,3,4,26,29}, {2,4,26,27,29,30,31}, {1,26,27}, {4,30,31},
    {2,3,4,26,28,29,31}, {2,26,27,29}>>

TYPE_I_K == 52
TYPE_II_K == 56

-----------------------------------------------------------------------------
(* Tables 4 and 5 of the paper.  <<i, a, j, b, c, dvs>>: bit a of w[i] XOR *)
(* bit b of w[j] is c, or the dvs are ruled out.                           *)
UbcsFrom35To37 ==
  <<<<35,1,36,6,1,{4,10}>>, <<35,3,39,28,0,{13,19}>>,
    <<35,4,39,29,0,{2,7,19}>>, <<35,5,39,30,0,{14}>>, <<35,30,40,28,1,{20}>>,
    <<36,0,41,30,1,{22}>>, <<36,1,37,6,1,{6,12,18}>>, <<36,3,40,28,0,{20}>>,
    <<36,4,37,4,1,{11}>>, <<36,4,38,4,1,{27,29}>>,
    <<36,4,40,29,0,{3,9,16,20}>>, <<36,30,41,28,1,{21}>>,
    <<37,0,42,30,1,{24}>>, <<37,1,37,6,0,{14}>>, <<37,1,38,6,1,{8,14}>>,
    <<37,3,41,28,0,{21}>>, <<37,4,38,4,1,{13}>>, <<37,4,39,4,1,{0,28,30}>>>>

UbcsFrom37To39 ==
  <<<<37,4,40,29,0,{0,5,17,28,30}>>, <<37,4,41,29,0,{11,21}>>,
    <<37,5,41,30,0,{22}>>, <<37,30,42,28,1,{23}>>, <<38,0,43,30,1,{26}>>,
    <<38,1,40,1,1,{10}>>, <<38,3,42,28,0,{23}>>, <<38,4,39,4,1,{15}>>,
    <<38,4,40,4,1,{1,29,31}>>, <<38,4,41,29,0,{1,7,19,29,31}>>,
    <<38,4,42,29,0,{13,23}>>, <<38,5,42,30,0,{24}>>, <<38,30,43,28,1,{25}>>,
    <<39,1,40,6,1,{4,12,22}>>, <<39,3,43,28,0,{25}>>,
    <<39,4,41,4,1,{0,2,30}>>, <<39,4,42,29,0,{0,2,9,20,30}>>,
    <<39,4,43,29,0,{15,25}>>>>

UbcsFrom39To41 ==
  <<<<39,5,43,30,0,{26}>>, <<39,6,40,1,0,{10}>>, <<39,30,44,28,1,{27}>>,
    <<40,1,41,6,1,{6,14,24}>>, <<40,3,44,28,0,{27}>>,
    <<40,4,42,4,1,{1,3,31}>>, <<40,4,43,29,0,{1,3,11,21,31}>>,
    <<40,4,44,29,0,{27}>>, <<40,6,41,1,0,{12,22}>>, <<40,6,42,6,0,{4}>>,
    <<40,29,41,29,0,{1,5,7,17,19,31}>>, <<41,1,42,6,1,{8,18,26}>>,
    <<41,3,45,28,0,{28}>>, <<41,4,44,29,0,{0,2,5,13,16,23}>>,
    <<41,4,45,29,0,{28}>>, <<41,6,42,1,0,{14,24}>>, <<41,6,43,6,0,{6}>>,
    <<41,29,42,29,0,{2,7,9,19,20}>>>>

UbcsFrom42To44 ==
  <<<<42,1,50,1,1,{10}>>, <<42,3,46,28,0,{29}>>,
    <<42,4,45,29,0,{1,3,7,15,17,25}>>, <<42,4,46,29,0,{29}>>,
    <<42,6,43,1,0,{18,26}>>, <<42,6,44,6,0,{4,8}>>,
    <<42,29,43,29,0,{3,9,11,20,21}>>, <<43,1,51,1,1,{12}>>,
    <<43,3,47,28,0,{30}>>, <<43,4,46,29,0,{0,2,5,9,19,27}>>,
    <<43,4,47,29,0,{30}>>, <<43,6,45,6,0,{6,10}>>,
    <<43,29,44,29,0,{5,11,13,16,21,23}>>, <<44,1,45,6,1,{14,22}>>,
    <<44,3,48,28,0,{31}>>, <<44,4,47,29,0,{1,3,7,11,20,28}>>,
    <<44,4,48,29,0,{31}>>, <<44,6,46,6,0,{4,8,12}>>>>

UbcsFrom44To47 ==
  <<<<44,29,45,29,0,{7,13,15,16,17,23,25}>>, <<44,29,46,29,1,{0,2,5}>>,
    <<45,1,47,1,1,{24}>>, <<45,4,48,29,0,{2,5,9,13,21,29}>>,
    <<45,6,46,1,0,{22}>>, <<45,6,47,6,0,{6,10,14}>>,
    <<45,29,46,29,0,{9,15,17,19,25,27}>>, <<45,29,47,29,1,{1,3,7}>>,
    <<46,1,48,1,1,{26}>>, <<46,4,49,29,0,{3,7,11,15,23,30}>>,
    <<46,6,47,1,0,{4,24}>>, <<46,6,48,6,0,{8,12}>>,
    <<46,29,47,29,0,{0,11,19,20,27,28}>>, <<46,29,48,29,1,{2,5,9}>>,
    <<47,1,51,1,1,{18}>>, <<47,4,50,29,0,{5,9,13,16,25,31}>>,
    <<47,6,48,1,0,{6,26}>>, <<47,6,49,6,0,{10,14}>>>>

UbcsFrom47To50 ==
  <<<<47,29,48,29,0,{1,13,20,21,28,29}>>, <<47,29,49,29,1,{3,7,11}>>,
    <<48,4,51,29,0,{7,11,15,17,27}>>, <<48,6,49,1,0,{8}>>,
    <<48,6,50,6,0,{12,18}>>, <<48,29,49,29,0,{2,15,21,23,29,30}>>,
    <<48,29,50,29,1,{5,9,13}>>, <<48,29,55,29,1,{13,15}>>,
    <<49,4,52,29,0,{9,13,16,19,28}>>, <<49,6,50,1,0,{10}>>,
    <<49,6,51,6,0,{14}>>, <<49,29,50,29,0,{3,16,23,25,30,31}>>,
    <<49,29,51,29,1,{7,11,15}>>, <<50,1,54,1,1,{22}>>,
    <<50,4,53,29,0,{11,15,17,20,29}>>, <<50,6,51,1,0,{12,18}>>,
    <<50,29,51,29,0,{5,17,25,27,31}>>, <<50,29,52,29,1,{9,13,16}>>>>

UbcsFrom51To54 ==
  <<<<51,1,55,1,1,{24}>>, <<51,4,54,29,0,{13,19,21,30}>>,
    <<51,6,52,1,0,{14}>>, <<51,6,53,6,0,{22}>>,
    <<51,29,52,29,0,{7,19,27,28}>>, <<51,29,54,29,1,{11,17,19}>>,
    <<52,1,56,1,1,{26}>>, <<52,4,55,29,0,{15,20,23,31}>>,
    <<52,6,54,6,0,{24}>>, <<52,29,53,29,0,{9,16,20,28,29}>>,
    <<53,4,56,29,0,{21,25}>>, <<53,6,54,1,0,{22}>>, <<53,6,55,6,0,{26}>>,
    <<53,29,54,29,0,{11,17,21,29,30}>>, <<53,29,56,29,1,{15,20,21}>>,
    <<54,4,57,29,0,{23,27}>>, <<54,6,55,1,0,{24}>>,
    <<54,29,55,29,0,{13,19,23,30,31}>>>>

UbcsFrom55To59 ==
  <<<<55,4,58,29,0,{25,28}>>, <<55,6,56,1,0,{26}>>,
    <<55,29,56,29,0,{15,20,25,31}>>, <<55,29,58,29,1,{23}>>,
    <<56,4,59,29,0,{27,29}>>, <<56,29,57,29,0,{21,27}>>,
    <<56,29,59,29,1,{25,27}>>, <<57,4,59,29,0,{30}>>, <<57,4,61,29,0,{28}>>,
    <<57,29,58,29,0,{23,28}>>, <<58,0,63,30,1,{0}>>, <<58,4,62,29,0,{29}>>,
    <<58,29,59,29,0,{25,29}>>, <<58,29,61,29,1,{28}>>, <<59,0,64,30,1,{1}>>,
    <<59,4,63,29,0,{30}>>, <<59,5,63,30,0,{0}>>, <<59,29,60,29,0,{27}>>>>

UbcsFrom60To63 ==
  <<<<60,0,61,5,1,{2,16}>>, <<60,4,64,29,0,{31}>>, <<60,5,64,30,0,{1}>>,
    <<61,0,62,5,1,{3,17}>>, <<61,1,62,6,1,{0}>>, <<61,2,62,7,1,{4,18}>>,
    <<62,0,63,5,1,{5,19}>>, <<62,1,63,6,1,{1}>>, <<62,2,63,7,1,{6}>>,
    <<63,0,64,5,1,{7,20}>>, <<63,1,64,6,1,{2,16}>>, <<63,2,64,7,1,{8}>>>>

UBCS ==
  UbcsFrom35To37 \o UbcsFrom37To39 \o UbcsFrom39To41 \o UbcsFrom42To44
  \o UbcsFrom44To47 \o UbcsFrom47To50 \o UbcsFrom51To54 \o UbcsFrom55To59
  \o UbcsFrom60To63

-----------------------------------------------------------------------------
(* The C original, as rules read off it.  <<dv, u, equal, opposite>>: dv   *)
(* survives only where the bits of equal are bit u, and those of opposite  *)
(* are its complement.                                                     *)
RulesOf0To13 ==
  <<<<0,1188,{1309,1316,1437},{1252,1373,1380,1501,1533}>>,
    <<0,1856,{},{1893,2046}>>, <<0,1953,{},{1990}>>,
    <<1,1220,{1309,1341,1348,1469},{1284,1405,1412,1533,1565}>>,
    <<1,1888,{},{1925,2078}>>, <<1,1985,{},{2022}>>, <<2,1124,{1277},{}>>,
    <<2,1252,{1341,1373,1380,1501},{1316,1437,1444,1565,1597}>>,
    <<2,1920,{},{1957}>>, <<2,2017,{},{2054}>>, <<3,1156,{1309},{}>>,
    <<3,1284,{1373,1405,1412,1533},{1348,1469,1476,1597,1629}>>,
    <<3,1952,{},{1989}>>, <<4,1121,{},{1158}>>,
    <<4,1249,{},{1286,1350,1414,1478,1505}>>, <<4,1954,{},{1991}>>,
    <<5,1188,{1309,1341},{}>>,
    <<5,1316,{1405,1437,1444,1565},{1380,1501,1508,1629,1661}>>,
    <<5,1984,{},{2021}>>, <<6,1153,{},{1190}>>,
    <<6,1281,{},{1318,1382,1446,1510,1537}>>, <<6,1986,{},{2023}>>,
    <<7,1124,{1277},{}>>, <<7,1220,{1309,1341,1373},{}>>,
    <<7,1348,{1437,1469,1476,1597},{1412,1533,1540,1661,1693}>>,
    <<7,2016,{},{2053}>>, <<8,1185,{},{1222}>>,
    <<8,1313,{},{1350,1414,1478,1542,1569}>>, <<8,2018,{},{2055}>>,
    <<9,1156,{1309},{}>>, <<9,1252,{1341,1373,1405},{}>>,
    <<9,1380,{1469,1501,1508,1629},{1444,1565,1572,1693,1725}>>,
    <<10,1121,{},{1158}>>, <<10,1217,{},{1254,1281}>>,
    <<10,1345,{},{1382,1446,1510,1574,1601}>>, <<11,1156,{},{1188,1341}>>,
    <<11,1284,{1373,1405,1437},{}>>,
    <<11,1412,{1501,1533,1540,1661},{1476,1597,1604,1725,1757}>>,
    <<12,1153,{},{1190}>>, <<12,1249,{},{1286,1313}>>,
    <<12,1377,{},{1414,1478,1542,1606,1633}>>, <<13,1123,{1276},{}>>,
    <<13,1188,{},{1220,1373}>>, <<13,1316,{1405,1437,1469},{}>>>>

RulesOf13To25 ==
  <<<<13,1444,{1533,1565,1572,1693},{1508,1629,1636,1757,1789}>>,
    <<14,1125,{1278},{}>>, <<14,1185,{1190},{1222}>>,
    <<14,1281,{},{1318,1345}>>, <<14,1409,{},{1446,1510,1574,1638,1665}>>,
    <<15,1220,{},{1252,1405}>>, <<15,1348,{1437,1469,1501},{}>>,
    <<15,1476,{1565,1597,1604,1725},{1540,1661,1668,1789,1821}>>,
    <<16,1156,{1309},{}>>, <<16,1316,{1405,1437,1469},{}>>,
    <<16,1508,{1597,1629},{1572,1693,1725}>>, <<16,1920,{},{1957}>>,
    <<16,2017,{},{2054}>>, <<17,1188,{1309,1341},{}>>,
    <<17,1348,{1437,1469,1501},{}>>, <<17,1540,{1629,1661},{1604,1725,1757}>>,
    <<17,1952,{},{1989}>>, <<18,1153,{},{1190}>>, <<18,1313,{},{1350,1377}>>,
    <<18,1505,{},{1542,1606,1633}>>, <<18,1954,{},{1991}>>,
    <<19,1123,{1276},{}>>, <<19,1124,{1277},{}>>,
    <<19,1220,{1309,1341,1373},{}>>, <<19,1380,{1469,1501,1533},{}>>,
    <<19,1572,{1661,1693},{1636,1757,1789}>>, <<19,1984,{},{2021}>>,
    <<20,1150,{},{1155,1308}>>, <<20,1156,{1309},{}>>,
    <<20,1252,{1341,1373,1405},{}>>, <<20,1412,{1501,1533,1565},{}>>,
    <<20,1604,{1693,1725},{1668,1789,1821}>>, <<20,2016,{},{2053}>>,
    <<21,1182,{},{1187,1340}>>, <<21,1188,{1341},{}>>,
    <<21,1284,{1373,1405,1437},{}>>, <<21,1444,{1533,1565,1597},{}>>,
    <<21,1636,{1725,1757},{1700,1821,1853}>>, <<22,1152,{},{1189,1342}>>,
    <<22,1249,{},{1286,1313}>>, <<22,1409,{},{1446,1473}>>,
    <<22,1601,{},{1638,1702,1729}>>, <<23,1214,{},{1219,1372}>>,
    <<23,1220,{1373},{}>>, <<23,1316,{1405,1437,1469},{}>>,
    <<23,1476,{1565,1597,1629},{}>>, <<23,1668,{1757,1789},{1732,1853,1885}>>,
    <<24,1184,{},{1221,1374}>>, <<24,1281,{},{1318,1345}>>,
    <<24,1441,{},{1478,1505}>>, <<24,1633,{},{1670,1734,1761}>>,
    <<25,1246,{},{1251,1404}>>, <<25,1252,{1405},{}>>,
    <<25,1348,{1437,1469,1501},{}>>, <<25,1508,{1597,1629,1661},{}>>>>

RulesOf25To31 ==
  <<<<25,1700,{1789,1821},{1764,1885,1917}>>, <<26,1216,{},{1253,1406}>>,
    <<26,1313,{},{1350,1377}>>, <<26,1473,{},{1510,1537}>>,
    <<26,1665,{},{1702,1766,1793}>>, <<27,1156,{},{1220}>>,
    <<27,1278,{},{1283,1436}>>, <<27,1284,{1437},{}>>,
    <<27,1380,{1469,1501,1533},{}>>, <<27,1540,{1629,1661,1693},{}>>,
    <<27,1732,{1821,1853},{1796,1917,1949}>>, <<28,1188,{1309},{1252}>>,
    <<28,1315,{1468},{}>>, <<28,1316,{1469},{}>>,
    <<28,1412,{1501,1533,1565},{}>>, <<28,1572,{1661,1693,1725},{}>>,
    <<28,1764,{1853,1885},{1828,1981}>>, <<29,1156,{1284},{1220,1341}>>,
    <<29,1347,{1500},{}>>, <<29,1348,{1501},{}>>,
    <<29,1444,{1533,1565,1597},{}>>, <<29,1604,{1693,1725,1757},{}>>,
    <<29,1796,{1885,1917},{}>>, <<29,1860,{2013},{}>>,
    <<30,1188,{1309,1316},{1252,1373}>>, <<30,1379,{1532},{}>>,
    <<30,1380,{1533},{}>>, <<30,1476,{1565,1597,1629},{}>>,
    <<30,1636,{1725,1757,1789},{}>>, <<30,1828,{1917},{}>>,
    <<30,1892,{2045},{}>>, <<31,1220,{1309,1341,1348},{1284,1405}>>,
    <<31,1411,{1564},{}>>, <<31,1412,{1565},{}>>,
    <<31,1508,{1597,1629,1661},{}>>, <<31,1668,{1757,1789,1821},{}>>,
    <<31,1924,{2077},{}>>>>

RULES == RulesOf0To13 \o RulesOf13To25 \o RulesOf25To31

=============================================================================
