----------------------------- MODULE MCApplications -----------------------------
(* Values for checking Applications on small instances.                    *)
EXTENDS Applications, TLC

CONSTANTS s1, s2, m1, m2
MCMatchSlot1 == (m1 :> s1)
MCMatchSlot2 == (m1 :> s1) @@ (m2 :> s2)
MCSymmetry == Permutations(AppId) \cup Permutations(Procs)

(***************************************************************************)
(* Two states that differ only in what no later step or checked property   *)
(* reads are one state for the reapplication run: the audit log, the time  *)
(* of a transition other than the rejection (overwritten by the next one), *)
(* and the creation time of an application that supersedes nothing.        *)
(***************************************************************************)
MCRow(r) ==
  [r EXCEPT !.lastTransitionAt = IF r.status = "REJECTED" THEN @ ELSE 0,
            !.createdAt = IF r.supersedes = NoApp THEN 0 ELSE @]
MCView == <<[a \in AppId |-> MCRow(row[a])], head, cmd, clock>>
================================================================================
