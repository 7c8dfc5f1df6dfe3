--------------------------- MODULE MCTimingLimits ---------------------------
(* Small instances of TimingLimits for TLC.                                *)
EXTENDS TimingLimits
(* Bounds that leave room, that meet, that cross (minT2 above maxT2, minT1 *)
(* above maxT1) and that are refused (minT1 above maxT2), with factors     *)
(* that are given, absent, zero and refused (T1's above T2's).             *)
SomeSections ==
    [minT1 : {0, 4}, maxT1 : {3, Infinity}, factorT1 : {1},
     minT2 : {0, 5}, maxT2 : {6}, factorT2 : {1}]
    \cup [minT1 : {0}, maxT1 : {Infinity}, factorT1 : {None, 0, 2, 4},
          minT2 : {0, 7}, maxT2 : {6, Infinity}, factorT2 : {None, 0, 3}]
    \cup [minT1 : {7}, maxT1 : {Infinity}, factorT1 : {2},
          minT2 : {0}, maxT2 : {6}, factorT2 : {3}]
SomeTimers == {0, 5, Infinity}
SomeLifetimes == {0, 2, 7, Infinity}
=============================================================================
