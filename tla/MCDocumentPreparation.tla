------------------------- MODULE MCDocumentPreparation -------------------------
(* Values for the constants of DocumentPreparation.                        *)
EXTENDS DocumentPreparation, TLC

CONSTANTS f, salary, x1, x2, t1, t2, w1, w2

(* x1 rests on a fact of the career, x2 on the salary or on nothing.       *)
MCClaimsOf == (x1 :> {f}) @@ (x2 :> SalaryFacts)

MCSalaryClaim == x2 :> {salary}

(* Every input gives the same variant, or an empty profile another one.    *)
MCVariantSame == [i \in Input |-> t1]
MCVariantDifferent == [i \in Input |-> IF i = {} THEN t1 ELSE t2]

MCSymmetry == Permutations(Workers)

(* posted only matters to AcceptedIsInFlight.                              *)
MCView == <<profile, rows, lock, job, worker, user, edits, stalls, signed>>
================================================================================
