------------------------------- MODULE Experience -------------------------------
(***************************************************************************)
(* The time a candidate's roles cover.  packages/matching and              *)
(* packages/documents each have the same algorithm, and the same order of  *)
(* language levels, as neither may import the other.  Times are in months. *)
(***************************************************************************)
EXTENDS Integers, SequencesExt, FiniteSetsExt

CONSTANT None  \* a null

ASSUME NoneAssumption == None \notin Int

LEVEL_ORDER == [A1 |-> 1, A2 |-> 2, B1 |-> 3, B2 |-> 4, C1 |-> 5, C2 |-> 6, native |-> 7]

(* Ranges without an end go to asOf; empty and reversed ones are dropped.  *)
Ranges(experiences, asOf) ==
  {r \in {<<e.start, IF e.end = None THEN asOf ELSE e.end>> : e \in experiences} : r[2] > r[1]}

(* A bug the runs inject: a range that starts inside another one counts.   *)
Sweep_Sum(acc, range) == [total |-> acc.total + range[2] - range[1], cursor |-> range[2]]

(* One step of the loop over the ranges by their start.                    *)
Sweep(acc, range) ==
  IF acc.cursor = None \/ range[1] > acc.cursor
    THEN [total |-> acc.total + range[2] - range[1], cursor |-> range[2]]
  ELSE IF range[2] > acc.cursor
    THEN [total |-> acc.total + range[2] - acc.cursor, cursor |-> range[2]]
  ELSE acc

MonthsInOrder(ranges) == FoldLeft(Sweep, [total |-> 0, cursor |-> None], ranges).total

(* The orders the sort by start can leave the ranges in.                   *)
StartOrders(ranges) ==
  {q \in SetToSeqs(ranges) : \A i, j \in DOMAIN q : i < j => q[i][1] <= q[j][1]}

computeExperienceMonths(experiences, asOf) ==
  MonthsInOrder(CHOOSE order \in StartOrders(Ranges(experiences, asOf)) : TRUE)

================================================================================
