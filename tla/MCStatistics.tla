---------------------------- MODULE MCStatistics ----------------------------
(* Small instances of Statistics for TLC.                                  *)
EXTENDS Statistics
CONSTANTS a, b, w1, w2, w3
Section(cs) == [given |-> TRUE, categories |-> cs]
AllSettings == {Section({}), Section({a}), Section({a, b}), NoSection}
=============================================================================
