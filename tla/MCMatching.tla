------------------------------ MODULE MCMatching ------------------------------
(* Values for the constants of Matching.                                   *)
EXTENDS Matching, TLC

CONSTANTS w1, w2, first, second

(* Two spaces of different models.                                         *)
MCModelOf == (first :> "m1") @@ (second :> "m2")

MCEdited == {"job", "resumes"}

MCSymmetry == Permutations(Workers)
================================================================================
