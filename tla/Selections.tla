----------------------------- MODULE Selections ------------------------------
(***************************************************************************)
(* Options and handlers are selected from lists by what they are.          *)
(***************************************************************************)
EXTENDS Integers, Sequences

SetOf(s) == {s[i] : i \in DOMAIN s}

(* SelectSeq for a set in place of a test, a function of how many elements *)
(* are looked at: unlike SelectSeq it can be proved about.                 *)
Among(s, S) ==
    LET those[n \in 0..Len(s)] ==
          IF n = 0 THEN <<>>
          ELSE IF s[n] \in S THEN Append(those[n - 1], s[n]) ELSE those[n - 1]
    IN  those
Those(s, S) == Among(s, S)[Len(s)]
=============================================================================
