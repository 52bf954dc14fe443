----------------------------- MODULE MCAutoSync -----------------------------
(* Instances of AutoSync for TLC.  Files are interchangeable: no definition *)
(* names one.                                                              *)
EXTENDS AutoSync, TLC

Symmetry == Permutations(Files)

\* A behaviour has at most one failed step, run that leaves files out or crash,
\* and beside it one edit.
OneTrouble ==
    /\ faults + lapses + crashes <= 1
    /\ edits + faults + lapses + crashes <= 2
=============================================================================
