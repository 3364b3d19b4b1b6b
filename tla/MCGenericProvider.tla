-------------------------- MODULE MCGenericProvider --------------------------
(* Instances of GenericProvider for TLC.                                    *)
EXTENDS GenericProvider, TLC

CONSTANTS own, other, c1, c2, t1, t2

TwoKeys == {own, other}
TwoStoppers == {t1, t2}

\* ConfigMap names and stoppers are interchangeable.
Symmetry == Permutations(CMNames) \cup Permutations(Stoppers)
=============================================================================
