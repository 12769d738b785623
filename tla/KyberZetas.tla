----------------------------- MODULE KyberZetas -----------------------------
(***************************************************************************)
(* The constants of the number theoretic transform (ntt.c, reduce.h): the  *)
(* powers of the root of unity 17 in bit-reversed order, plain for the     *)
(* Kyber instructions and times R without them, and the factor that ends   *)
(* the inverse transform.                                                  *)
(***************************************************************************)
LOCAL INSTANCE Integers
LOCAL INSTANCE Sequences

zetas_ise ==
    <<1, 1729, 2580, 3289, 2642, 630, 1897, 848, 1062, 1919, 193, 797, 2786,
      3260, 569, 1746, 296, 2447, 1339, 1476, 3046, 56, 2240, 1333, 1426, 2094,
      535, 2882, 2393, 2879, 1974, 821, 289, 331, 3253, 1756, 1197, 2304, 2277,
      2055, 650, 1977, 2513, 632, 2865, 33, 1320, 1915, 2319, 1435, 807, 452,
      1438, 2868, 1534, 2402, 2647, 2617, 1481, 648, 2474, 3110, 1227, 910, 17,
      2761, 583, 2649, 1637, 723, 2288, 1100, 1409, 2662, 3281, 233, 756, 2156,
      3015, 3050, 1703, 1651, 2789, 1789, 1847, 952, 1461, 2687, 939, 2308, 2437,
      2388, 733, 2337, 268, 641, 1584, 2298, 2037, 3220, 375, 2549, 2090, 1645,
      1063, 319, 2773, 757, 2099, 561, 2466, 2594, 2804, 1092, 403, 1026, 1143,
      2150, 2775, 886, 1722, 1212, 1874, 1029, 2110, 2935, 885, 2154>>

zetas_reference ==
    <<2285, 2571, 2970, 1812, 1493, 1422, 287, 202, 3158, 622, 1577, 182, 962,
      2127, 1855, 1468, 573, 2004, 264, 383, 2500, 1458, 1727, 3199, 2648, 1017,
      732, 608, 1787, 411, 3124, 1758, 1223, 652, 2777, 1015, 2036, 1491, 3047,
      1785, 516, 3321, 3009, 2663, 1711, 2167, 126, 1469, 2476, 3239, 3058, 830,
      107, 1908, 3082, 2378, 2931, 961, 1821, 2604, 448, 2264, 677, 2054, 2226,
      430, 555, 843, 2078, 871, 1550, 105, 422, 587, 177, 3094, 3038, 2869,
      1574, 1653, 3083, 778, 1159, 3182, 2552, 1483, 2727, 1119, 1739, 644, 2457,
      349, 418, 329, 3173, 3254, 817, 1097, 603, 610, 1322, 2044, 1864, 384,
      2114, 3193, 1218, 1994, 2455, 220, 2142, 1670, 2144, 1799, 2051, 794, 1819,
      2475, 2459, 478, 3221, 3021, 996, 991, 958, 1869, 1522, 1628>>

(* For each build (ise): the table, indexed from 0 as in C, and f of invntt. *)
BuildZetas == [ise \in BOOLEAN |-> [k \in 0..127 |->
            IF ise THEN zetas_ise[k + 1] ELSE zetas_reference[k + 1]]]

BuildScale == [ise \in BOOLEAN |-> IF ise THEN 3303 ELSE 1441]
=============================================================================
