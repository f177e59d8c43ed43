------------------------------- MODULE MCCrawl -------------------------------
(***************************************************************************)
(* A site of two pages, the first of which holds nothing relevant, two     *)
(* runs and the queue's two executions.                                    *)
(***************************************************************************)
EXTENDS Crawl

CONSTANTS r1, r2, w1, w2

MCView ==
  [o1 |-> [keyword |-> TRUE, location |-> "unknown", remoteType |-> "remote"],
   o2 |-> [keyword |-> TRUE, location |-> "inside", remoteType |-> "onsite"]]

MCListing == <<{"o2"}, {"o1"}>>

MCRelevantFirst == <<{"o1"}, {"o2"}>>

MCQuery == [keywords |-> TRUE, locations |-> TRUE, remote |-> "remote"]
=============================================================================
