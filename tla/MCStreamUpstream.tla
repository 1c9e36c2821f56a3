------------------------- MODULE MCStreamUpstream -------------------------
(* Small instances of StreamUpstream for TLC. *)
EXTENDS StreamUpstream, TLC

\* Connections are interchangeable; no temporal property is checked with it.
ConnSymmetry == Permutations(Conns)

\* Different backends; Label may also name one backend twice.
DistinctLabels == [s \in Slots |-> IF s = 0 THEN "a" ELSE "b"]
=============================================================================
