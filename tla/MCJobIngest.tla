----------------------------- MODULE MCJobIngest -----------------------------
(* Values for checking JobIngest on small instances.                       *)
EXTENDS JobIngest, TLC

CONSTANTS a, b, c, x, l1, l2, l3, u1, u2, u3, t1, t2

MCOffer(l, u, k, t, e) ==
  [listing |-> l, url |-> u, job |-> k, target |-> t, eligible |-> e, valid |-> TRUE]

(* The vacancy a is offered under two URLs; under the second, one          *)
(* configuration refuses it, and it may come with other content (b). x is  *)
(* all but equal to a; a, b and c are in the gray zone of one another, so  *)
(* that c may be compared with b after b was with a. b comes again under   *)
(* the first URL. One offer is malformed at first.                         *)
MCOffers ==
  {MCOffer(l1, u1, a, t1, TRUE), MCOffer(l2, u2, a, t2, FALSE), MCOffer(l2, u2, b, None, TRUE),
   MCOffer(l3, u3, c, t2, TRUE), MCOffer(l3, u3, x, None, TRUE), MCOffer(l3, u1, b, None, TRUE),
   [MCOffer(l1, u1, a, None, TRUE) EXCEPT !.valid = FALSE]}

(* b, in the gray zone of a, is offered once more at another URL.          *)
MCRepeated ==
  {MCOffer(l1, u1, a, t1, TRUE), MCOffer(l2, u2, b, None, TRUE), MCOffer(l3, u3, b, None, TRUE)}

(* One listing for each of the three jobs in the gray zone of one another. *)
MCChained ==
  {MCOffer(l1, u1, a, t1, TRUE), MCOffer(l2, u2, b, None, TRUE), MCOffer(l3, u3, c, t2, TRUE)}

MCBlock == [k \in Jobs |-> "company|location"]

(* a and x reach High, a, b and c exactly Medium, x is apart from b and c. *)
MCScore ==
  [k \in Jobs |-> [j \in Jobs |-> CASE k = j \/ {k, j} = {a, x} -> 9
                                   [] x \in {k, j} -> 3
                                   [] OTHER -> 7]]

MCSymmetry == Permutations(Workers) \cup Permutations(Users)
==============================================================================
